---- MODULE Spec2Model ----
(***************************************************************************)
(* A model of statequark's reactive core (src/src/statequark/core.py):     *)
(* Quark cells (source and derived), their subscriber lists, the           *)
(* synchronous notification pass (_notify_sync), the asynchronous one      *)
(* (_notify, run on the shared thread pool) and the dependency-change      *)
(* handler that forwards a notification down a chain of derived cells.     *)
(*                                                                         *)
(* A section the code runs under `with self._lock` is one atomic step,     *)
(* taken only while no other thread holds that lock; subscribe is two      *)
(* steps (the membership test, then the append) with the lock held in      *)
(* between.  A callback invocation is one step taken with no lock held.    *)
(***************************************************************************)
EXTENDS Integers, Sequences, FiniteSets, TLC

\* ------------------------------------------------------------------ bounds
MaxCells == 3
MaxVal == 1
NThreads == 2
MaxSubs == 2

\* ThreadPoolExecutor(max_workers=config.max_workers), the default of config.py
max_workers == 4

\* the cells the constructors make, and one more for the graphs of four
Cells == 1..(MaxCells + 1)
Values == 0..MaxVal
Threads == 1..NThreads
\* the single sequential caller of the specification Spec
Caller == CHOOSE t \in Threads : \A u \in Threads : t <= u

\* ------------------------------------------------------------- vocabulary
\* self._getter is None for a source cell.  A getter is the closure the
\* caller passed: its code (fn) and the cells the closure captured (cells).
None == [fn |-> "None", cells |-> <<>>]
GetterFns == {"double", "total"}

\* User callbacks are compared by reference (`callback not in self._callbacks`),
\* so a callback is its name; the handler of a derived cell d is the bound
\* method d._on_dep_change, equal to itself for the same d only.
UserNames == {"cb1", "cb2"}
UserCallbacks == {[fn |-> n, self |-> 0] : n \in UserNames}
Handler(d) == [fn |-> "_on_dep_change", self |-> d]

\* two user callbacks that read the cell they are handed
on_change == [fn |-> "cb1", self |-> 0]
second == [fn |-> "cb2", self |-> 0]

\* A callback that raises ValueError whenever it is called.
Failing == {[fn |-> "error_callback", self |-> 0]}

\* self._error_handler: None, or a handler; "bad_handler" raises itself.
NoHandler == "None"
ErrorHandlers == {"on_error", "bad_handler"}

VARIABLES
    instance_counter,   \* Quark._instance_counter
    live,               \* ids of the cells whose constructor returned
    _getter,            \* cell -> getter closure, or None
    _value,             \* cell -> self._value
    _callbacks,         \* cell -> self._callbacks (a list)
    _deps,              \* cell -> self._deps (a list of cells)
    _lock,              \* cell -> the thread inside `with self._lock`, or 0
    _error_handler,     \* cell -> self._error_handler, or NoHandler
    stack,              \* thread -> its call stack (innermost frame last)
    tasks,              \* thread -> the _safe_call tasks its set_async submitted
    call,               \* thread -> the API call it is in or has last finished
    calls,              \* thread -> callback invocations made for that call
    pre,                \* thread -> subscriber list of the target at the call
    gone,               \* thread -> callbacks unsubscribed before its running write began
    written,            \* cell -> the value the caller last handed to it
    errors,             \* thread -> error handler invocations made for its call
    order,              \* history: the writes, in the order they stored
    seen,               \* history: the callback invocations, in the order made
    _executor,          \* ExecutorManager._executor: the pool, or NoExecutor
    _shutdown,          \* ExecutorManager._shutdown
    _executor_lock,     \* the thread inside `with self._executor_lock`, or 0
    created,            \* the number of pools created so far
    closed,             \* the pools whose shutdown has begun
    job,                \* thread -> the ExecutorManager call it is in or has last finished
    batching,           \* thread -> "batching active": it is inside a batch scope
    pending,            \* the batch coordinator's pending set, in order of first addition
    drained,            \* history: thread -> what its last exit from a batch scope drained
    computed,           \* history: cell -> how often its derivation function has run
    accessed,           \* history: cell -> how often its value has been read
    shares,             \* cell -> the cell whose constructor first got the list object self._deps is
    _config,            \* config.py: the installed global configuration, or NoConfig
    config,             \* thread -> the StateQuarkConfig object it has constructed, or NoConfig
    _debug_enabled,     \* logger.py: _debug_enabled
    _validator,         \* cell -> ValidatedQuark._validator, or NoRange
    _on_invalid,        \* cell -> ValidatedQuark._on_invalid, or NoRange
    _reducer            \* cell -> ReducerQuark._reducer, or NoReducer

vars == <<instance_counter, live, _getter, _value, _callbacks, _deps, _lock,
          _error_handler, stack, tasks, call, calls, pre, gone, written, errors,
          order, seen, _executor, _shutdown, _executor_lock, created, closed, job,
          batching, pending, drained, computed, accessed, shares, _config, config,
          _debug_enabled, _validator, _on_invalid, _reducer>>
batchVars == <<batching, pending, drained>>
countVars == <<computed, accessed>>
configVars == <<_config, config, _debug_enabled>>
wrapperVars == <<_validator, _on_invalid, _reducer>>
managerVars == <<_executor, _shutdown, _executor_lock, created, closed, job>>
quarkVars == <<instance_counter, live, _getter, _value, _callbacks, _deps, _lock,
               _error_handler>>

\* ------------------------------------------------------- list primitives
\* `x in list`
In(x, list) == \E k \in 1..Len(list) : list[k] = x

\* list.remove(x): removes the first occurrence (the caller checked `in`)
RECURSIVE remove(_, _)
remove(list, x) ==
    IF list = <<>> THEN <<>>
    ELSE IF Head(list) = x THEN Tail(list)
    ELSE <<Head(list)>> \o remove(Tail(list), x)

\* number of occurrences of x in list
RECURSIVE Count(_, _)
Count(list, x) ==
    IF list = <<>> THEN 0
    ELSE (IF Head(list) = x THEN 1 ELSE 0) + Count(Tail(list), x)

\* sum(get(c) for c in cells)
RECURSIVE Sum(_, _)
Sum(cells, vals) ==
    IF cells = <<>> THEN 0 ELSE vals[Head(cells)] + Sum(Tail(cells), vals)

\* The two getters of the model, as the tests write them:
\*   double: lambda get: get(base) * 2
\*   total:  lambda get: get(a) + get(b) + ...
\* applied to the values `vals` that get() returned for the captured cells.
ApplyGetter(g, vals) ==
    IF g.fn = "double" THEN vals[g.cells[1]] * 2 ELSE Sum(g.cells, vals)

\* ----------------------------------------------------------------- reads
\* Quark.value: a derived cell recomputes on every read, a source cell
\* returns the stored value.  _compute calls the getter with
\* get(dep_quark) = dep_quark.value.
RECURSIVE value(_)
valueMutant(self) == _value[self]
_compute(self) ==
    ApplyGetter(_getter[self],
                [d \in Cells |-> IF In(d, _getter[self].cells) THEN value(d) ELSE 0])

value(self) ==
    IF _getter[self] # None THEN _compute(self) ELSE _value[self]

\* The locks a read of self.value takes: its own and, while it holds that,
\* the locks of the cells its getter reads (each taken by that cell's value).
RECURSIVE ReadLocks(_)
ReadLocks(self) ==
    {self} \cup UNION {ReadLocks(_getter[self].cells[k]) :
                          k \in 1..Len(_getter[self].cells)}

\* `with self._lock` can be entered for every cell of S: no thread is inside
Unlocked(S) == \A c \in S : _lock[c] = 0

\* threading.RLock acquired by thread t / released
AcquireMutant(self, t) == _lock
Acquire(self, t) == [_lock EXCEPT ![self] = t]
Release(self) == [_lock EXCEPT ![self] = 0]

\* ---------------------------------------------------------------- frames
\* A frame of a call stack: the function (pc), the cell it runs on, and for
\* a notification pass its snapshot and the index of the next callback.
Frame(pc, self, callbacks_copy) ==
    [pc |-> pc, self |-> self, callbacks_copy |-> callbacks_copy, i |-> 1]

\* The record of an API call: status is "running" until the call returns
\* ("returned") or raises (the exception's name).  result is the value a read
\* returned; for subscribe and unsubscribe it notes how often the callback
\* was in the list when the call was made.
Call(op, self, arg, cb, status, result) ==
    [op |-> op, self |-> self, arg |-> arg, cb |-> cb, status |-> status,
     result |-> result]
NoCallback == [fn |-> "", self |-> 0]
NoCall == Call("", 0, 0, NoCallback, "returned", 0)

\* One callback invocation: the cell notifying, the callback, and the value
\* the callback read from the cell (0 for a handler, which reads nothing).
Invocation(cell, cb, val) == [cell |-> cell, cb |-> cb, val |-> val]

\* `for cb in callbacks_copy` is over when the index has passed the end:
\* the function returns to its caller, which may itself be at its end.
RECURSIVE Unwind(_)
Unwind(stk) ==
    IF stk = <<>> THEN <<>>
    ELSE LET f == stk[Len(stk)] IN
         IF f.pc = "for" /\ f.i > Len(f.callbacks_copy)
         THEN Unwind(SubSeq(stk, 1, Len(stk) - 1))
         ELSE stk

\* stack k of thread t: its own stack (k = 0) or that of its k-th pool task
StackOf(t, k) == IF k = 0 THEN stack[t] ELSE tasks[t][k]
Top(t, k) == StackOf(t, k)[Len(StackOf(t, k))]

\* The API call of t returns when its own stack empties.
SetStack(t, k, stk) ==
    /\ stack' = IF k = 0 THEN [stack EXCEPT ![t] = stk] ELSE stack
    /\ tasks' = IF k = 0 THEN tasks ELSE [tasks EXCEPT ![t][k] = stk]
    /\ call' = IF k = 0 /\ stk = <<>>
               THEN [call EXCEPT ![t].status = "returned"] ELSE call
    /\ gone' = IF k = 0 /\ stk = <<>> THEN [gone EXCEPT ![t] = {}] ELSE gone

Idle(t) == stack[t] = <<>> /\ tasks[t] = <<>>

\* A new API call of t: the invocation log starts empty, and a write notes
\* the subscriber list of the moment.
Begin(t, list) ==
    /\ Idle(t)
    /\ calls' = [calls EXCEPT ![t] = <<>>]
    /\ errors' = [errors EXCEPT ![t] = <<>>]
    /\ pre' = [pre EXCEPT ![t] = list]

\* ------------------------------------------------------------ operations
\* `deps or []`: an absent (None) and an empty list both give []
DepsOrEmpty(deps) == IF deps.none THEN <<>> ELSE deps.items

\* `if not self._deps`
NoDepsMutant(deps) == deps.none
NoDeps(deps) == DepsOrEmpty(deps) = <<>>

\* subscribe's locked section: append unless already present
appendedMutant(list, callback) == Append(list, callback)
appended(list, callback) ==
    IF ~In(callback, list) THEN Append(list, callback) ELSE list

\* dep.subscribe(self._on_dep_change) for every dep, in list order
RECURSIVE SubscribeAll(_, _, _)
SubscribeAll(cbs, deps, callback) ==
    IF deps = <<>> THEN cbs
    ELSE SubscribeAll([cbs EXCEPT ![Head(deps)] = appended(@, callback)],
                      Tail(deps), callback)

\* self._value = self._compute() of the constructor: the getter applied to
\* the values its cells have now
InitialMutant(getter) == 0
Initial(getter) ==
    ApplyGetter(getter, [d \in Cells |-> IF In(d, getter.cells) THEN value(d) ELSE 0])

\* Quark.__init__(initial_or_getter, deps): initial_or_getter is the value
\* `initial` or, when callable, the closure `getter`.
Quark(t, callable, initial, getter, deps) ==
    LET self == instance_counter + 1 IN
    /\ Begin(t, <<>>)
    /\ instance_counter < MaxCells
    /\ Unlocked(Cells)
    /\ instance_counter' = self
    /\ gone' = [gone EXCEPT ![t] = {}]
    /\ UNCHANGED <<stack, tasks, _lock, _error_handler>>
    /\ IF callable /\ NoDeps(deps)
       THEN \* raise ValueError("Getter function provided but no dependencies")
            /\ call' = [call EXCEPT ![t] =
                            Call("Quark", self, 0, NoCallback, "ValueError", 0)]
            /\ UNCHANGED <<live, _getter, _value, _callbacks, _deps, written>>
       ELSE /\ live' = live \cup {self}
            /\ _deps' = [_deps EXCEPT ![self] = DepsOrEmpty(deps)]
            /\ _getter' = [_getter EXCEPT ![self] = IF callable THEN getter ELSE None]
            /\ _value' = [_value EXCEPT ![self] =
                              IF callable THEN Initial(getter) ELSE initial]
            /\ _callbacks' = IF callable
                             THEN SubscribeAll(_callbacks, DepsOrEmpty(deps), Handler(self))
                             ELSE _callbacks
            /\ written' = [written EXCEPT ![self] = IF callable THEN 0 ELSE initial]
            /\ call' = [call EXCEPT ![t] =
                            Call("Quark", self, 0, NoCallback, "returned", 0)]

\* Quark.value read by a caller
Read(t, self) ==
    /\ Begin(t, <<>>)
    /\ self \in live
    /\ Unlocked(ReadLocks(self))
    /\ call' = [call EXCEPT ![t] =
                    Call("value", self, 0, NoCallback, "returned", value(self))]
    /\ gone' = [gone EXCEPT ![t] = {}]
    /\ UNCHANGED <<quarkVars, stack, tasks, written>>

\* `if self._getter: raise ValueError("Cannot set derived quark directly")`
RefusedMutant(self) == FALSE
Refused(self) == _getter[self] # None

\* `old_value = self._value; self._value = new_value`: the value stored
AssignedMutant(old_value, new_value) == old_value
Assigned(old_value, new_value) == new_value

\* what set and set_async run once the value is stored: the notification,
\* whatever the old and the new value are
NotificationAsync(notify, self, old_value, new_value) == <<Frame("_notify", self, <<>>)>>
NotificationMutant(notify, self, old_value, new_value) ==
    IF old_value = new_value THEN <<>> ELSE <<Frame(notify, self, <<>>)>>
Notification(notify, self, old_value, new_value) == <<Frame(notify, self, <<>>)>>

\* The callbacks whose unsubscribe from self was the last call a thread made
\* and has returned.
Unsubscribed(self) ==
    {call[u].cb : u \in {x \in Threads : /\ call[x].op = "unsubscribe"
                                         /\ call[x].status = "returned"
                                         /\ call[x].self = self}}

\* The locked section of set and of set_async: refuse a derived cell, else
\* store the value; the notification follows with the lock released.
Store(t, op, notify, self, new_value) ==
    /\ Begin(t, _callbacks[self])
    /\ self \in live
    /\ Unlocked({self})
    /\ UNCHANGED <<instance_counter, live, _getter, _callbacks, _deps, _lock,
                   _error_handler, tasks>>
    /\ IF Refused(self)
       THEN /\ call' = [call EXCEPT ![t] =
                            Call(op, self, new_value, NoCallback, "ValueError", 0)]
            /\ gone' = [gone EXCEPT ![t] = {}]
            /\ UNCHANGED <<_value, stack, written>>
       ELSE /\ _value' = [_value EXCEPT ![self] = Assigned(_value[self], new_value)]
            /\ written' = [written EXCEPT ![self] = new_value]
            /\ gone' = [gone EXCEPT ![t] = Unsubscribed(self)]
            /\ stack' = [stack EXCEPT ![t] =
                             Notification(notify, self, _value[self], new_value)]
            /\ call' = [call EXCEPT ![t] =
                            Call(op, self, new_value, NoCallback,
                                 IF Notification(notify, self, _value[self], new_value) = <<>>
                                 THEN "returned" ELSE "running",
                                 0)]

set(t, self, new_value) == Store(t, "set", "_notify_sync", self, new_value)

set_async(t, self, new_value) == Store(t, "set_async", "_notify", self, new_value)

\* number of user callbacks subscribed over all cells (the model's cap)
RECURSIVE Subscribed(_)
Subscribed(S) ==
    IF S = {} THEN 0
    ELSE LET c == CHOOSE x \in S : TRUE IN
         Cardinality({k \in 1..Len(_callbacks[c]) :
                         _callbacks[c][k].fn # "_on_dep_change"})
         + Subscribed(S \ {c})

\* A subscribe of callback to self ends every "unsubscribed before the write
\* began" that running writes to self hold for it.
Resubscribed(self, callback) ==
    [u \in Threads |->
        IF call[u].self = self /\ call[u].status = "running"
        THEN gone[u] \ {callback} ELSE gone[u]]

subscribe(t, self, callback) ==
    /\ Begin(t, <<>>)
    /\ self \in live
    /\ In(callback, _callbacks[self]) \/ Subscribed(Cells) < MaxSubs
    /\ Unlocked({self})
    /\ gone' = [Resubscribed(self, callback) EXCEPT ![t] = {}]
    /\ IF In(callback, _callbacks[self])
       THEN /\ call' = [call EXCEPT ![t] =
                            Call("subscribe", self, 0, callback, "returned", 1)]
            /\ UNCHANGED <<stack, _lock>>
       ELSE /\ call' = [call EXCEPT ![t] =
                            Call("subscribe", self, 0, callback, "running", 0)]
            /\ stack' = [stack EXCEPT ![t] = <<Frame("append", self, <<callback>>)>>]
            /\ _lock' = Acquire(self, t)
    /\ UNCHANGED <<instance_counter, live, _getter, _value, _callbacks, _deps,
                   _error_handler, tasks, written>>

\* A callable without a __name__ attribute, functools.partial(on_change):
\* `callback.__name__`, an argument of the log_debug call that follows the
\* append and the remove, raises AttributeError for it
partial == [fn |-> "partial", self |-> 0]
Named(callback) == callback # partial

\* self._callbacks.append(callback), the log_debug call with
\* callback.__name__, and the lock is released
appendMutant(t) ==
    /\ stack[t] # <<>>
    /\ Top(t, 0).pc = "append"
    /\ LET f == Top(t, 0) IN
       /\ _callbacks' = [_callbacks EXCEPT ![f.self] = Append(@, f.callbacks_copy[1])]
       /\ _lock' = Release(f.self)
       /\ calls' = [calls EXCEPT ![t] =
                       <<Invocation(f.self, f.callbacks_copy[1], value(f.self))>>]
    /\ stack' = [stack EXCEPT ![t] = <<>>]
    /\ call' = [call EXCEPT ![t].status = "returned"]
    /\ UNCHANGED <<instance_counter, live, _getter, _value, _deps, _error_handler,
                   tasks, pre, gone, written, errors>>
append(t) ==
    /\ stack[t] # <<>>
    /\ Top(t, 0).pc = "append"
    /\ LET f == Top(t, 0) IN
       /\ _callbacks' = [_callbacks EXCEPT ![f.self] = Append(@, f.callbacks_copy[1])]
       /\ _lock' = Release(f.self)
       /\ call' = [call EXCEPT ![t].status =
                       IF Named(f.callbacks_copy[1]) THEN "returned" ELSE "AttributeError"]
    /\ stack' = [stack EXCEPT ![t] = <<>>]
    /\ UNCHANGED <<instance_counter, live, _getter, _value, _deps, _error_handler,
                   tasks, calls, pre, gone, written, errors>>

\* unsubscribe's locked section: `if callback in self._callbacks: remove`;
\* the result is the list left and how the call ends.
removedMutant(list, callback) ==
    IF In(callback, list)
    THEN [list |-> remove(list, callback), status |-> "returned"]
    ELSE [list |-> list, status |-> "ValueError"]
removedNothing(list, callback) == [list |-> list, status |-> "returned"]
removed(list, callback) ==
    [list |-> IF In(callback, list) THEN remove(list, callback) ELSE list,
     status |-> IF In(callback, list) /\ ~Named(callback)
                THEN "AttributeError" ELSE "returned"]

unsubscribe(t, self, callback) ==
    /\ Begin(t, <<>>)
    /\ self \in live
    /\ Unlocked({self})
    /\ _callbacks' = [_callbacks EXCEPT ![self] = removed(@, callback).list]
    /\ call' = [call EXCEPT ![t] =
                    Call("unsubscribe", self, 0, callback,
                         removed(_callbacks[self], callback).status,
                         Count(_callbacks[self], callback))]
    /\ gone' = [gone EXCEPT ![t] = {}]
    /\ UNCHANGED <<instance_counter, live, _getter, _value, _deps, _lock,
                   _error_handler, stack, tasks, written>>

\* set_error_handler(handler): `with self._lock: self._error_handler = handler`
set_error_handler(t, self, handler) ==
    /\ Begin(t, <<>>)
    /\ self \in live
    /\ Unlocked({self})
    /\ _error_handler' = [_error_handler EXCEPT ![self] = handler]
    /\ call' = [call EXCEPT ![t] =
                    Call("set_error_handler", self, 0, [fn |-> handler, self |-> 0],
                         "returned", 0)]
    /\ gone' = [gone EXCEPT ![t] = {}]
    /\ UNCHANGED <<instance_counter, live, _getter, _value, _callbacks, _deps, _lock,
                   stack, tasks, written>>

\* _notify_sync with the list of the moment the write began in the place of
\* the copy it takes itself
_notify_syncMutant(t, k) ==
    /\ StackOf(t, k) # <<>>
    /\ Top(t, k).pc = "_notify_sync"
    /\ Unlocked({Top(t, k).self})
    /\ LET stk == StackOf(t, k)
           f == Top(t, k)
           callbacks_copy == pre[t]
           below == SubSeq(stk, 1, Len(stk) - 1)
       IN SetStack(t, k,
             IF callbacks_copy = <<>> THEN Unwind(below)
             ELSE Append(below, [f EXCEPT !.pc = "for",
                                          !.callbacks_copy = callbacks_copy]))
    /\ UNCHANGED <<quarkVars, calls, pre, written, errors>>

\* ---------------------------------------------------------- notification
\* _notify_sync, its locked section: copy the subscriber list; return at
\* once when the copy is empty.
_notify_sync(t, k) ==
    /\ StackOf(t, k) # <<>>
    /\ Top(t, k).pc = "_notify_sync"
    /\ Unlocked({Top(t, k).self})
    /\ LET stk == StackOf(t, k)
           f == Top(t, k)
           callbacks_copy == _callbacks[f.self]
           below == SubSeq(stk, 1, Len(stk) - 1)
       IN SetStack(t, k,
             IF callbacks_copy = <<>> THEN Unwind(below)
             ELSE Append(below, [f EXCEPT !.pc = "for",
                                          !.callbacks_copy = callbacks_copy]))
    /\ UNCHANGED <<quarkVars, calls, pre, written, errors>>

\* A task of the pool may run once fewer than max_workers of the tasks
\* queued before it are unfinished (the pool serves its queue in order).
WorkerFree(t, k) ==
    k = 0 \/ Cardinality({j \in 1..(k - 1) : tasks[t][j] # <<>>}) < max_workers

\* _on_dep_change(dep) of derived cell d, called on stack stk: it runs
\* d's own _notify_sync and computes nothing.
_on_dep_changeMutant(stk, d) == stk
_on_dep_change(stk, d) == Append(stk, Frame("_notify_sync", d, <<>>))

\* callback(self): the exception the callback raises, "none" when it returns
Raised(cb) == IF cb \in Failing THEN "ValueError" ELSE "none"

\* self._error_handler(e, callback, self): the exception the handler raises
HandlerRaised(handler) == IF handler = "bad_handler" THEN "RuntimeError" ELSE "none"

\* `except Exception as e: ... if self._error_handler:` - the handler is
\* called when the callback raised and a handler is set
HandlerCalledMutant(handler, error) == handler # NoHandler
HandlerCalled(handler, error) == error # "none" /\ handler # NoHandler

\* one call of the error handler: handler(error, callback, cell)
ErrorCall(handler, error, callback, cell) ==
    [handler |-> handler, error |-> error, callback |-> callback, cell |-> cell]

\* The exception that leaves _safe_call: none, the callback's is caught by
\* `except Exception as e` and the handler's by `except Exception as
\* handler_error`.
PropagatedCallback(error, handler_error) == error
Propagated(error, handler_error) == "none"

\* _safe_call(cb) for the next callback of the pass.  A user callback reads
\* the cell it is handed (values.append(q.value)) or raises; the handler of a
\* derived cell is _on_dep_change.  An exception is logged and handed to the
\* cell's error handler when one is set.
_safe_call(t, k) ==
    /\ StackOf(t, k) # <<>>
    /\ Top(t, k).pc = "for"
    /\ WorkerFree(t, k)
    /\ (/\ Top(t, k).callbacks_copy[Top(t, k).i].fn # "_on_dep_change"
        /\ Top(t, k).callbacks_copy[Top(t, k).i] \notin Failing)
          => Unlocked(ReadLocks(Top(t, k).self))
    /\ LET stk == StackOf(t, k)
           f == Top(t, k)
           cb == f.callbacks_copy[f.i]
           below == SubSeq(stk, 1, Len(stk) - 1)
           next == Append(below, [f EXCEPT !.i = f.i + 1])
           error == Raised(cb)
           handler == _error_handler[f.self]
           called == HandlerCalled(handler, error)
           handler_error == IF called THEN HandlerRaised(handler) ELSE "none"
           out == Propagated(error, handler_error)
       IN /\ calls' = [calls EXCEPT ![t] =
                 Append(@, Invocation(f.self, cb,
                              IF cb.fn = "_on_dep_change" \/ error # "none"
                              THEN 0 ELSE value(f.self)))]
          /\ errors' = IF called
                       THEN [errors EXCEPT ![t] =
                                Append(@, ErrorCall(handler, error, cb, f.self))]
                       ELSE errors
          /\ IF out # "none"
             THEN \* the exception reaches the caller of the write
                  /\ stack' = [stack EXCEPT ![t] = <<>>]
                  /\ tasks' = [tasks EXCEPT ![t] = <<>>]
                  /\ call' = [call EXCEPT ![t].status = out]
                  /\ gone' = [gone EXCEPT ![t] = {}]
             ELSE IF cb.fn = "_on_dep_change"
                  THEN SetStack(t, k, Unwind(_on_dep_change(next, cb.self)))
                  ELSE SetStack(t, k, Unwind(next))
    /\ UNCHANGED <<quarkVars, pre, written>>

\* ------------------------------------------------ the shared thread pool
\* ExecutorManager (executor.py), the one instance get_executor_manager()
\* hands out.  A pool is a positive number, the n-th pool created being n;
\* self._executor is NoExecutor while there is none.  The tests of
\* _shutdown and _executor that get_executor and cleanup make outside
\* `with self._executor_lock` are steps of their own; a section under the
\* lock is one step, but for the shutdown, which waits inside it.
NoExecutor == 0
MaxPools == 2

Job(op, pc, status, result) == [op |-> op, pc |-> pc, status |-> status, result |-> result]
NoJob == Job("", "done", "returned", NoExecutor)

InitManager ==
    /\ _executor = NoExecutor
    /\ _shutdown = FALSE
    /\ _executor_lock = 0
    /\ created = 0
    /\ closed = {}
    /\ job = [t \in Threads |-> NoJob]

\* the callbacks submitted to pool p that have not finished executing
Outstanding(p) ==
    {<<t, j>> \in Threads \X (1..MaxSubs) :
        /\ stack[t] # <<>>
        /\ stack[t][1].pc = "gather"
        /\ stack[t][1].executor = p
        /\ j <= Len(tasks[t])
        /\ tasks[t][j] # <<>>}

\* thread t moves on in its ExecutorManager call; the cells are not touched
Managed(t, j) ==
    /\ job' = [job EXCEPT ![t] = j]
    /\ UNCHANGED <<quarkVars, stack, tasks, call, calls, pre, gone, written, errors,
                   batchVars>>

\* ThreadPoolExecutor(max_workers=config.max_workers, ...)
ThreadPoolExecutor == created + 1

\* get_executor: `if self._shutdown: raise RuntimeError(...)`
get_executor(t) ==
    /\ job[t].pc = "done"
    /\ Managed(t, IF _shutdown
                  THEN Job("get_executor", "done", "RuntimeError", NoExecutor)
                  ELSE Job("get_executor", "is_none", "running", NoExecutor))
    /\ UNCHANGED <<_executor, _shutdown, _executor_lock, created, closed>>

\* `if self._executor is None:`, outside the lock
get_executor_is_none(t) ==
    /\ job[t].pc = "is_none"
    /\ Managed(t, [job[t] EXCEPT !.pc = IF _executor = NoExecutor THEN "lock" ELSE "return"])
    /\ UNCHANGED <<_executor, _shutdown, _executor_lock, created, closed>>

\* `with self._executor_lock:`
get_executor_lock(t) ==
    /\ job[t].pc = "lock"
    /\ _executor_lock = 0
    /\ _executor_lock' = t
    /\ Managed(t, [job[t] EXCEPT !.pc = "create"])
    /\ UNCHANGED <<_executor, _shutdown, created, closed>>

\* the locked section: `if self._executor is None: self._executor = ThreadPoolExecutor(...)`
get_executor_createMutant(t) ==
    /\ job[t].pc = "create"
    /\ created < MaxPools
    /\ _executor' = ThreadPoolExecutor
    /\ created' = created + 1
    /\ _executor_lock' = 0
    /\ Managed(t, [job[t] EXCEPT !.pc = "return"])
    /\ UNCHANGED <<_shutdown, closed>>
get_executor_create(t) ==
    /\ job[t].pc = "create"
    /\ _executor = NoExecutor => created < MaxPools
    /\ IF _executor = NoExecutor
       THEN /\ _executor' = ThreadPoolExecutor
            /\ created' = created + 1
       ELSE UNCHANGED <<_executor, created>>
    /\ _executor_lock' = 0
    /\ Managed(t, [job[t] EXCEPT !.pc = "return"])
    /\ UNCHANGED <<_shutdown, closed>>

\* `return self._executor`
get_executor_return(t) ==
    /\ job[t].pc = "return"
    /\ Managed(t, [job[t] EXCEPT !.pc = "done", !.status = "returned", !.result = _executor])
    /\ UNCHANGED <<_executor, _shutdown, _executor_lock, created, closed>>

\* cleanup, also as the first statement of reset: `if self._shutdown: return`
Enter(t, op) ==
    /\ job[t].pc = "done"
    /\ Managed(t, Job(op, IF ~_shutdown THEN "cleanup_lock"
                          ELSE IF op = "reset" THEN "reset" ELSE "done",
                      IF _shutdown /\ op = "cleanup" THEN "returned" ELSE "running",
                      NoExecutor))
    /\ UNCHANGED <<_executor, _shutdown, _executor_lock, created, closed>>
cleanup(t) == Enter(t, "cleanup")

\* `with self._executor_lock:` of cleanup
cleanup_lock(t) ==
    /\ job[t].pc = "cleanup_lock"
    /\ _executor_lock = 0
    /\ _executor_lock' = t
    /\ Managed(t, [job[t] EXCEPT !.pc = "shutdown"])
    /\ UNCHANGED <<_executor, _shutdown, created, closed>>

\* where cleanup goes on after its locked section
Cleaned(j) ==
    IF j.op = "reset" THEN [j EXCEPT !.pc = "reset"]
    ELSE [j EXCEPT !.pc = "done", !.status = "returned"]

\* `if self._executor is not None and not self._shutdown:` the pool stops
\* taking new work (self._executor.shutdown(...) begins); otherwise the
\* locked section is over with nothing done.
shutdown(t) ==
    /\ job[t].pc = "shutdown"
    /\ IF _executor # NoExecutor /\ ~_shutdown
       THEN /\ closed' = closed \cup {_executor}
            /\ Managed(t, [job[t] EXCEPT !.pc = "wait", !.result = _executor])
            /\ UNCHANGED _executor_lock
       ELSE /\ _executor_lock' = 0
            /\ Managed(t, Cleaned(job[t]))
            /\ UNCHANGED closed
    /\ UNCHANGED <<_executor, _shutdown, created>>

\* shutdown(wait=True, cancel_futures=False) returns when every callback
\* submitted to the pool has run; then `finally: self._executor = None;
\* self._shutdown = True`, and the lock is released.
waitMutant(t) ==
    /\ job[t].pc = "wait"
    /\ _executor' = NoExecutor
    /\ _shutdown' = TRUE
    /\ _executor_lock' = 0
    /\ Managed(t, Cleaned(job[t]))
    /\ UNCHANGED <<created, closed>>
wait(t) ==
    /\ job[t].pc = "wait"
    /\ Outstanding(_executor) = {}
    /\ _executor' = NoExecutor
    /\ _shutdown' = TRUE
    /\ _executor_lock' = 0
    /\ Managed(t, Cleaned(job[t]))
    /\ UNCHANGED <<created, closed>>

\* reset: self.cleanup(), and then, under the lock, `self._shutdown = False`
reset(t) == Enter(t, "reset")
reset_shutdown(t) ==
    /\ job[t].pc = "reset"
    /\ _executor_lock = 0
    /\ _shutdown' = FALSE
    /\ Managed(t, [job[t] EXCEPT !.pc = "done", !.status = "returned"])
    /\ UNCHANGED <<_executor, _executor_lock, created, closed>>

\* _notify, its locked section: copy the subscriber list; return at once
\* when the copy is empty.
_notify(t) ==
    /\ stack[t] # <<>>
    /\ Top(t, 0).pc = "_notify"
    /\ Unlocked({Top(t, 0).self})
    /\ LET f == Top(t, 0)
           callbacks_copy == _callbacks[f.self]
       IN SetStack(t, 0,
             IF callbacks_copy = <<>> THEN <<>>
             ELSE <<[f EXCEPT !.pc = "run_in_executor",
                              !.callbacks_copy = callbacks_copy]>>)
    /\ UNCHANGED <<quarkVars, calls, pre, written, errors>>

\* executor = get_shared_executor(), then run_in_executor(executor,
\* self._safe_call, cb) for every cb of the copy: one queued task per
\* callback, then the caller awaits them all.  The request for the pool is
\* taken without interruption by another thread: it raises RuntimeError once
\* _shutdown is set, and creates the pool when there is none; submitting to a
\* pool whose shutdown has begun raises RuntimeError as well.
run_in_executor(t) ==
    /\ stack[t] # <<>>
    /\ Top(t, 0).pc = "run_in_executor"
    /\ LET f == Top(t, 0) IN
       IF _shutdown \/ _executor \in closed
       THEN /\ stack' = [stack EXCEPT ![t] = <<>>]
            /\ call' = [call EXCEPT ![t].status = "RuntimeError"]
            /\ gone' = [gone EXCEPT ![t] = {}]
            /\ UNCHANGED <<tasks, managerVars>>
       ELSE /\ _executor = NoExecutor => (_executor_lock = 0 /\ created < MaxPools)
            /\ LET executor == IF _executor = NoExecutor THEN ThreadPoolExecutor
                                ELSE _executor
               IN /\ _executor' = executor
                  /\ created' = IF _executor = NoExecutor THEN created + 1 ELSE created
                  /\ tasks' = [tasks EXCEPT ![t] =
                         [j \in 1..Len(f.callbacks_copy) |->
                             <<Frame("for", f.self, <<f.callbacks_copy[j]>>)>>]]
                  /\ stack' = [stack EXCEPT ![t] =
                         <<[pc |-> "gather", self |-> f.self,
                            callbacks_copy |-> f.callbacks_copy, i |-> f.i,
                            executor |-> executor]>>]
            /\ UNCHANGED <<call, gone, _shutdown, _executor_lock, closed, job>>
    /\ UNCHANGED <<quarkVars, calls, pre, written, errors>>

\* await asyncio.gather(...): resumes when every task has finished
gatherMutant(t) ==
    /\ stack[t] # <<>>
    /\ Top(t, 0).pc = "gather"
    /\ stack' = [stack EXCEPT ![t] = <<>>]
    /\ call' = [call EXCEPT ![t].status = "returned"]
    /\ gone' = [gone EXCEPT ![t] = {}]
    /\ UNCHANGED <<quarkVars, tasks, calls, pre, written, errors>>
gather(t) ==
    /\ stack[t] # <<>>
    /\ Top(t, 0).pc = "gather"
    /\ \A j \in 1..Len(tasks[t]) : tasks[t][j] = <<>>
    /\ stack' = [stack EXCEPT ![t] = <<>>]
    /\ tasks' = [tasks EXCEPT ![t] = <<>>]
    /\ call' = [call EXCEPT ![t].status = "returned"]
    /\ gone' = [gone EXCEPT ![t] = {}]
    /\ UNCHANGED <<quarkVars, calls, pre, written, errors>>

\* ------------------------------------------------------------ the inputs
\* deps arguments: absent (None), [], or a list of cells
AbsentDeps == [none |-> TRUE, items |-> <<>>]
ListDeps(l) == [none |-> FALSE, items |-> l]

\* The getter closures a caller writes over the cells it holds: double over
\* one cell, total over two (which may be the same cell twice).
MaxDeps == 2
CellLists(S) == UNION {[1..n -> S] : n \in 1..MaxDeps}
Getters(S) ==
    {[fn |-> IF Len(l) = 1 THEN "double" ELSE "total", cells |-> l] : l \in CellLists(S)}

\* ---------------------------------------------------------- the lock grain
\* The same operations with entering `with self._lock` (which may block) and
\* leaving it as steps of their own, and with callbacks that act: a callback
\* reads the cell it is handed, reads another cell, or writes a cell.  The
\* frames of this grain carry an argument: the value to store, or the values
\* a getter has read so far.
LFrame(pc, self, arg) ==
    [pc |-> pc, self |-> self, callbacks_copy |-> <<>>, i |-> 1, arg |-> arg]

\* lambda q: other.value, and lambda q: other.set(...)
Reader(c) == [fn |-> "read", self |-> c]
Writer(c) == [fn |-> "set", self |-> c]

\* a writing callback writes only while at most MaxNest passes enclose it
MaxNest == 1

\* the frames that are inside a `with self._lock` block of their cell
LockedPcs == {"store", "copy", "compute", "append", "remove", "cleanup"}
Holds(stk, c) == \E k \in 1..Len(stk) : stk[k].self = c /\ stk[k].pc \in LockedPcs

\* threading.RLock: free, or already held by the same thread
Free(t, c) == _lock[c] \in {0, t}

\* leaving `with self._lock`: the lock is released unless an enclosing block
\* of the same thread (left on stack stk) still holds it
LeaveMutant(t, c, stk) == _lock
Leave(t, c, stk) == IF Holds(stk, c) THEN _lock ELSE Release(c)

\* the getter applied to the values get() returned, in the order it read them
RECURSIVE SumSeq(_)
SumSeq(reads) == IF reads = <<>> THEN 0 ELSE Head(reads) + SumSeq(Tail(reads))
ApplyReads(g, reads) == IF g.fn = "double" THEN reads[1] * 2 ELSE SumSeq(reads)

\* A call returned `result` to the frame on top of stk: a getter takes it as
\* the value of get(dep); a pass that has no callback left returns in turn.
RECURSIVE Resume(_, _)
Resume(stk, result) ==
    IF stk = <<>> THEN <<>>
    ELSE LET f == stk[Len(stk)] IN
         IF f.pc = "compute"
         THEN [stk EXCEPT ![Len(stk)] = [f EXCEPT !.arg = Append(@, result), !.i = @ + 1]]
         ELSE IF f.pc = "for" /\ f.i > Len(f.callbacks_copy)
         THEN Resume(SubSeq(stk, 1, Len(stk) - 1), 0)
         ELSE stk

\* The stack of t becomes stk; when it is empty the public call has ended.
Continue(t, stk, status, result) ==
    /\ stack' = [stack EXCEPT ![t] = stk]
    /\ call' = IF stk = <<>>
               THEN [call EXCEPT ![t].status = status, ![t].result = result]
               ELSE call

\* set, `with self._lock:` entered by a caller
acquire_set(t, self, new_value) ==
    /\ Begin(t, _callbacks[self])
    /\ self \in live
    /\ Free(t, self)
    /\ _lock' = Acquire(self, t)
    /\ stack' = [stack EXCEPT ![t] = <<LFrame("store", self, new_value)>>]
    /\ call' = [call EXCEPT ![t] = Call("set", self, new_value, NoCallback, "running", 0)]
    /\ UNCHANGED <<instance_counter, live, _getter, _value, _callbacks, _deps,
                   _error_handler, tasks, gone, written>>

\* set, the block and its exit: refuse a derived cell, else store the value
\* and go on to self._notify_sync() with the lock released
leave_set(t) ==
    /\ stack[t] # <<>>
    /\ Top(t, 0).pc = "store"
    /\ LET f == Top(t, 0)
           below == SubSeq(stack[t], 1, Len(stack[t]) - 1)
       IN /\ _lock' = Leave(t, f.self, below)
          /\ IF Refused(f.self)
             THEN /\ Continue(t, Resume(below, 0), "ValueError", 0)
                  /\ UNCHANGED <<_value, written>>
             ELSE /\ _value' = [_value EXCEPT ![f.self] = Assigned(@, f.arg)]
                  /\ written' = [written EXCEPT ![f.self] = f.arg]
                  /\ Continue(t, Append(below, LFrame("_notify_sync", f.self, 0)),
                              "returned", 0)
    /\ UNCHANGED <<instance_counter, live, _getter, _callbacks, _deps, _error_handler,
                   tasks, calls, pre, gone, errors>>

\* _notify_sync, `with self._lock:` entered
acquire_notify_sync(t) ==
    /\ stack[t] # <<>>
    /\ Top(t, 0).pc = "_notify_sync"
    /\ Free(t, Top(t, 0).self)
    /\ _lock' = Acquire(Top(t, 0).self, t)
    /\ stack' = [stack EXCEPT ![t][Len(stack[t])].pc = "copy"]
    /\ UNCHANGED <<instance_counter, live, _getter, _value, _callbacks, _deps,
                   _error_handler, tasks, call, calls, pre, gone, written, errors>>

\* _notify_sync, the block and its exit: callbacks_copy = self._callbacks[:]
leave_notify_sync(t) ==
    /\ stack[t] # <<>>
    /\ Top(t, 0).pc = "copy"
    /\ LET f == Top(t, 0)
           below == SubSeq(stack[t], 1, Len(stack[t]) - 1)
           pass == [f EXCEPT !.pc = "for", !.callbacks_copy = _callbacks[f.self]]
       IN /\ _lock' = Leave(t, f.self, below)
          /\ Continue(t, Resume(Append(below, pass), 0), "returned", 0)
    /\ UNCHANGED <<instance_counter, live, _getter, _value, _callbacks, _deps,
                   _error_handler, tasks, calls, pre, gone, written, errors>>

\* the number of notification passes running on a stack
Passes(stk) == Cardinality({k \in 1..Len(stk) : stk[k].pc = "for"})

\* What callback(self) of the pass of cell `self` calls first, as the frame it
\* pushes: the handler of a derived cell calls that cell's _notify_sync, a
\* user callback reads the cell handed to it, a reader another cell, and a
\* writer writes its cell; <<>> when it calls nothing.
Called(cb, self, stk) ==
    IF cb.fn = "_on_dep_change" THEN <<LFrame("_notify_sync", cb.self, 0)>>
    ELSE IF cb.fn = "read" THEN <<LFrame("compute", cb.self, <<>>)>>
    ELSE IF cb.fn = "set"
         THEN IF Passes(stk) <= MaxNest
              THEN <<LFrame("store", cb.self, MaxVal)>> ELSE <<>>
    ELSE IF cb \in Failing THEN <<>>
    ELSE <<LFrame("compute", self, <<>>)>>

\* _safe_call(cb) for the next callback of the pass: the callback runs up to
\* the first `with ..._lock` it enters
call_callback(t) ==
    /\ stack[t] # <<>>
    /\ Top(t, 0).pc = "for"
    /\ LET f == Top(t, 0)
           cb == f.callbacks_copy[f.i]
           below == SubSeq(stack[t], 1, Len(stack[t]) - 1)
           next == Append(below, [f EXCEPT !.i = f.i + 1])
           called == Called(cb, f.self, stack[t])
       IN /\ calls' = [calls EXCEPT ![t] = Append(@, Invocation(f.self, cb, 0))]
          /\ IF called = <<>>
             THEN /\ Continue(t, Resume(next, 0), "returned", 0)
                  /\ UNCHANGED _lock
             ELSE IF called[1].pc = "_notify_sync"
             THEN /\ Continue(t, next \o called, "returned", 0)
                  /\ UNCHANGED _lock
             ELSE /\ Free(t, called[1].self)
                  /\ _lock' = Acquire(called[1].self, t)
                  /\ Continue(t, next \o called, "returned", 0)
    /\ UNCHANGED <<instance_counter, live, _getter, _value, _callbacks, _deps,
                   _error_handler, tasks, pre, gone, written, errors>>

\* value, `with self._lock:` entered by a caller
acquire_value(t, self) ==
    /\ Begin(t, <<>>)
    /\ self \in live
    /\ Free(t, self)
    /\ _lock' = Acquire(self, t)
    /\ stack' = [stack EXCEPT ![t] = <<LFrame("compute", self, <<>>)>>]
    /\ call' = [call EXCEPT ![t] = Call("value", self, 0, NoCallback, "running", 0)]
    /\ UNCHANGED <<instance_counter, live, _getter, _value, _callbacks, _deps,
                   _error_handler, tasks, gone, written>>

\* value of a derived cell, inside its block: the getter calls get(dep) for
\* its next cell, which enters that cell's `with self._lock`
get(t) ==
    /\ stack[t] # <<>>
    /\ Top(t, 0).pc = "compute"
    /\ _getter[Top(t, 0).self] # None
    /\ Top(t, 0).i <= Len(_getter[Top(t, 0).self].cells)
    /\ LET dep_quark == _getter[Top(t, 0).self].cells[Top(t, 0).i] IN
       /\ Free(t, dep_quark)
       /\ _lock' = Acquire(dep_quark, t)
       /\ stack' = [stack EXCEPT ![t] = Append(@, LFrame("compute", dep_quark, <<>>))]
    /\ UNCHANGED <<instance_counter, live, _getter, _value, _callbacks, _deps,
                   _error_handler, tasks, call, calls, pre, gone, written, errors>>

\* value, the exit of its block: a source cell returns self._value, a
\* derived cell what its getter made of the values it read
leave_value(t) ==
    /\ stack[t] # <<>>
    /\ Top(t, 0).pc = "compute"
    /\ _getter[Top(t, 0).self] # None
          => Top(t, 0).i > Len(_getter[Top(t, 0).self].cells)
    /\ LET f == Top(t, 0)
           below == SubSeq(stack[t], 1, Len(stack[t]) - 1)
           result == IF _getter[f.self] = None THEN _value[f.self]
                     ELSE ApplyReads(_getter[f.self], f.arg)
       IN /\ _lock' = Leave(t, f.self, below)
          /\ Continue(t, Resume(below, result), "returned", result)
    /\ UNCHANGED <<instance_counter, live, _getter, _value, _callbacks, _deps,
                   _error_handler, tasks, calls, pre, gone, written, errors>>

\* subscribe, `with self._lock:` entered by a caller, and the membership test
acquire_subscribe(t, self, callback) ==
    /\ Begin(t, <<>>)
    /\ self \in live
    /\ Free(t, self)
    /\ IF In(callback, _callbacks[self])
       THEN /\ call' = [call EXCEPT ![t] =
                            Call("subscribe", self, 0, callback, "returned", 1)]
            /\ UNCHANGED <<stack, _lock>>
       ELSE /\ call' = [call EXCEPT ![t] =
                            Call("subscribe", self, 0, callback, "running", 0)]
            /\ stack' = [stack EXCEPT ![t] = <<Frame("append", self, <<callback>>)>>]
            /\ _lock' = Acquire(self, t)
    /\ UNCHANGED <<instance_counter, live, _getter, _value, _callbacks, _deps,
                   _error_handler, tasks, gone, written>>

\* unsubscribe, `with self._lock:` entered by a caller
acquire_unsubscribe(t, self, callback) ==
    /\ Begin(t, <<>>)
    /\ self \in live
    /\ Free(t, self)
    /\ _lock' = Acquire(self, t)
    /\ stack' = [stack EXCEPT ![t] = <<Frame("remove", self, <<callback>>)>>]
    /\ call' = [call EXCEPT ![t] =
                    Call("unsubscribe", self, 0, callback, "running",
                         Count(_callbacks[self], callback))]
    /\ UNCHANGED <<instance_counter, live, _getter, _value, _callbacks, _deps,
                   _error_handler, tasks, gone, written>>

\* unsubscribe, the block and its exit; called by cleanup, it returns to
\* cleanup's loop over the dependencies
leave_unsubscribe(t) ==
    /\ stack[t] # <<>>
    /\ Top(t, 0).pc = "remove"
    /\ LET f == Top(t, 0)
           below == SubSeq(stack[t], 1, Len(stack[t]) - 1)
           after == IF below = <<>> THEN <<>>
                    ELSE [below EXCEPT ![Len(below)].i = @ + 1]
       IN /\ _callbacks' = [_callbacks EXCEPT
                               ![f.self] = removed(@, f.callbacks_copy[1]).list]
          /\ _lock' = Leave(t, f.self, below)
          /\ Continue(t, after, removed(_callbacks[f.self], f.callbacks_copy[1]).status,
                      call[t].result)
    /\ UNCHANGED <<instance_counter, live, _getter, _value, _deps, _error_handler,
                   tasks, calls, pre, gone, written, errors>>

\* cleanup, `with self._lock:` entered by a caller
acquire_cleanup(t, self) ==
    /\ Begin(t, <<>>)
    /\ self \in live
    /\ Free(t, self)
    /\ _lock' = Acquire(self, t)
    /\ stack' = [stack EXCEPT ![t] = <<LFrame("cleanup", self, 0)>>]
    /\ call' = [call EXCEPT ![t] = Call("cleanup", self, 0, NoCallback, "running", 0)]
    /\ UNCHANGED <<instance_counter, live, _getter, _value, _callbacks, _deps,
                   _error_handler, tasks, gone, written>>

\* cleanup, inside its block: dep.unsubscribe(self._on_dep_change) for the
\* next dependency, which enters that cell's `with self._lock`
unsubscribe_dep(t) ==
    /\ stack[t] # <<>>
    /\ Top(t, 0).pc = "cleanup"
    /\ Top(t, 0).i <= Len(_deps[Top(t, 0).self])
    /\ LET dep == _deps[Top(t, 0).self][Top(t, 0).i] IN
       /\ Free(t, dep)
       /\ _lock' = Acquire(dep, t)
       /\ stack' = [stack EXCEPT ![t] =
                       Append(@, Frame("remove", dep, <<Handler(Top(t, 0).self)>>))]
    /\ UNCHANGED <<instance_counter, live, _getter, _value, _callbacks, _deps,
                   _error_handler, tasks, call, calls, pre, gone, written, errors>>

\* cleanup, the end of its block: self._deps.clear(), self._callbacks.clear().
\* clear() empties the list object, which is the _deps of every cell that
\* was constructed from it (`self._deps = deps or []` keeps the caller's
\* list when it is not empty).
leave_cleanup(t) ==
    /\ stack[t] # <<>>
    /\ Top(t, 0).pc = "cleanup"
    /\ Top(t, 0).i > Len(_deps[Top(t, 0).self])
    /\ _deps' = [c \in Cells |->
                    IF shares[c] = shares[Top(t, 0).self] THEN <<>> ELSE _deps[c]]
    /\ _callbacks' = [_callbacks EXCEPT ![Top(t, 0).self] = <<>>]
    /\ _lock' = Leave(t, Top(t, 0).self, <<>>)
    /\ Continue(t, <<>>, "returned", 0)
    /\ UNCHANGED <<instance_counter, live, _getter, _value, _error_handler,
                   tasks, calls, pre, gone, written, errors>>

\* Quark.__init__, its first statements: `with Quark._counter_lock:` the
\* counter is incremented and its new value becomes self._id.  The frame
\* keeps the id until the constructor is over.
__init__Mutant(t) ==
    LET self == IF instance_counter = 0 THEN 1 ELSE instance_counter IN
    /\ Begin(t, <<>>)
    /\ instance_counter < MaxCells
    /\ instance_counter' = self
    /\ stack' = [stack EXCEPT ![t] = <<LFrame("__init__", self, 0)>>]
    /\ call' = [call EXCEPT ![t] = Call("Quark", self, 0, NoCallback, "running", 0)]
    /\ gone' = [gone EXCEPT ![t] = {}]
    /\ UNCHANGED <<live, _getter, _value, _callbacks, _deps, _lock, _error_handler,
                   tasks, written>>
__init__(t) ==
    LET self == instance_counter + 1 IN
    /\ Begin(t, <<>>)
    /\ instance_counter < MaxCells
    /\ instance_counter' = self
    /\ stack' = [stack EXCEPT ![t] = <<LFrame("__init__", self, 0)>>]
    /\ call' = [call EXCEPT ![t] = Call("Quark", self, 0, NoCallback, "running", 0)]
    /\ gone' = [gone EXCEPT ![t] = {}]
    /\ UNCHANGED <<live, _getter, _value, _callbacks, _deps, _lock, _error_handler,
                   tasks, written>>

\* Quark.__init__, the statements after the id is taken: the lists, the
\* refusal of a getter without dependencies, the value, the subscriptions
\* to the dependencies
initialize(t, callable, initial, getter, deps) ==
    /\ stack[t] # <<>>
    /\ Top(t, 0).pc = "__init__"
    /\ Unlocked(Cells)
    /\ stack' = [stack EXCEPT ![t] = <<>>]
    /\ UNCHANGED <<instance_counter, _lock, _error_handler, tasks, calls, pre, gone,
                   errors>>
    /\ LET self == Top(t, 0).self IN
       IF callable /\ NoDeps(deps)
       THEN /\ call' = [call EXCEPT ![t].status = "ValueError"]
            /\ UNCHANGED <<live, _getter, _value, _callbacks, _deps, written>>
       ELSE /\ live' = live \cup {self}
            /\ _deps' = [_deps EXCEPT ![self] = DepsOrEmpty(deps)]
            /\ _getter' = [_getter EXCEPT ![self] = IF callable THEN getter ELSE None]
            /\ _value' = [_value EXCEPT ![self] =
                              IF callable THEN Initial(getter) ELSE initial]
            /\ _callbacks' = IF callable
                             THEN SubscribeAll(_callbacks, DepsOrEmpty(deps), Handler(self))
                             ELSE _callbacks
            /\ written' = [written EXCEPT ![self] = IF callable THEN 0 ELSE initial]
            /\ call' = [call EXCEPT ![t].status = "returned"]

\* ------------------------------------------------------- batch scopes
\* The batch coordinator: a thread inside a batch scope is marked "batching
\* active"; a write it makes stores the value at once, and the cell, instead
\* of notifying, is put into the pending set unless it is there already; the
\* exit from the scope, on whatever path, clears the mark and drains the
\* pending set, running the synchronous notification path of each cell once,
\* in the order in which the cells were first added.
NoDrain == [cells |-> <<>>, raised |-> FALSE]

InitBatch ==
    /\ batching = [t \in Threads |-> FALSE]
    /\ pending = <<>>
    /\ drained = [t \in Threads |-> NoDrain]

\* A step outside every batch scope leaves the coordinator alone.
Unbatched == UNCHANGED batchVars

RECURSIVE Reverse(_)
Reverse(list) == IF list = <<>> THEN <<>> ELSE Append(Reverse(Tail(list)), Head(list))

\* entering the scope
enter_batch_scope(t) ==
    /\ ~batching[t]
    /\ Begin(t, <<>>)
    /\ batching' = [batching EXCEPT ![t] = TRUE]
    /\ call' = [call EXCEPT ![t] = Call("batch_scope", 0, 0, NoCallback, "running", 0)]
    /\ UNCHANGED <<quarkVars, stack, tasks, gone, written, pending, drained>>

\* a write inside the scope: the value is stored as by any write, and the
\* cell asks the coordinator, not the notifier, to deliver the change; a
\* write that raised ends the body of the scope
write_in_batch(t, self, new_value) ==
    /\ batching[t]
    /\ call[t].status # "ValueError"
    /\ Store(t, "set", "register", self, new_value)
    /\ UNCHANGED batchVars

\* the cell registers itself: added to the pending set if it is not in it
register(t) ==
    /\ stack[t] # <<>>
    /\ Top(t, 0).pc = "register"
    /\ pending' = IF In(Top(t, 0).self, pending) THEN pending
                  ELSE Append(pending, Top(t, 0).self)
    /\ SetStack(t, 0, <<>>)
    /\ UNCHANGED <<quarkVars, calls, pre, written, errors, batching, drained>>

\* leaving the scope, its body over or unwound by an exception: the mark is
\* cleared, the pending set emptied, and the notification passes of its
\* cells are run one after the other, the first added first
exit_batch_scope(t) ==
    /\ batching[t]
    /\ Begin(t, <<>>)
    /\ batching' = [batching EXCEPT ![t] = FALSE]
    /\ pending' = <<>>
    /\ drained' = [drained EXCEPT ![t] =
                      [cells |-> pending, raised |-> call[t].status = "ValueError"]]
    /\ stack' = [stack EXCEPT ![t] =
                    Reverse([k \in 1..Len(pending) |->
                                Frame("_notify_sync", pending[k], <<>>)])]
    /\ call' = [call EXCEPT ![t] =
                    Call("batch_scope", 0, 0, NoCallback,
                         IF pending = <<>> THEN "returned" ELSE "running", 0)]
    /\ UNCHANGED <<quarkVars, tasks, gone, written>>

\* -------------------------------------------------------------- history
\* The specifications that bound the number of writes record the order in
\* which the writes stored and the order in which the subscribers were
\* invoked; the others leave the two histories empty.
Unrecorded == UNCHANGED <<order, seen>>

\* A step that makes no use of the shared thread pool leaves its manager alone.
Unmanaged == UNCHANGED managerVars

\* A step of the core counts no run of a derivation function, shares no
\* dependency list, and touches neither the configuration nor the slots of
\* the wrapper classes (ValidatedQuark, ReducerQuark).
Uncounted == UNCHANGED countVars
Unshared == UNCHANGED shares
Unconfigured == UNCHANGED configVars
Unwrapped == UNCHANGED wrapperVars
Core == Uncounted /\ Unshared /\ Unconfigured /\ Unwrapped

\* `_config: Optional[StateQuarkConfig] = None`; a configuration object is
\* its fields (thread_name_prefix, a label, is left out)
NoConfig == [none |-> TRUE, debug |-> FALSE, max_workers |-> 0, auto_cleanup |-> FALSE]

\* in_range(min_val, max_val) and clamp(min_val, max_val) are the pair of
\* their bounds; NoRange is `on_invalid=None`, and the slot of a plain cell
NoRange == [none |-> TRUE, min_val |-> 0, max_val |-> 0]
NoReducer == "None"

InitCore ==
    /\ computed = [c \in Cells |-> 0]
    /\ accessed = [c \in Cells |-> 0]
    /\ shares = [c \in Cells |-> c]
    /\ _config = NoConfig
    /\ config = [t \in Threads |-> NoConfig]
    /\ _debug_enabled = FALSE
    /\ _validator = [c \in Cells |-> NoRange]
    /\ _on_invalid = [c \in Cells |-> NoRange]
    /\ _reducer = [c \in Cells |-> NoReducer]

\* ------------------------------------------------------ the specification
Init ==
    /\ instance_counter = 0
    /\ live = {}
    /\ _getter = [c \in Cells |-> None]
    /\ _value = [c \in Cells |-> 0]
    /\ _callbacks = [c \in Cells |-> <<>>]
    /\ _deps = [c \in Cells |-> <<>>]
    /\ _lock = [c \in Cells |-> 0]
    /\ stack = [t \in Threads |-> <<>>]
    /\ tasks = [t \in Threads |-> <<>>]
    /\ call = [t \in Threads |-> NoCall]
    /\ calls = [t \in Threads |-> <<>>]
    /\ pre = [t \in Threads |-> <<>>]
    /\ gone = [t \in Threads |-> {}]
    /\ written = [c \in Cells |-> 0]
    /\ _error_handler = [c \in Cells |-> NoHandler]
    /\ errors = [t \in Threads |-> <<>>]
    /\ order = <<>>
    /\ seen = <<>>
    /\ InitManager
    /\ InitBatch
    /\ InitCore

\* One sequential caller: it constructs cells, reads, writes, subscribes and
\* unsubscribes, each call made after the previous one has returned.  A
\* derived cell is constructed with the cells of its getter as deps, or with
\* deps absent or empty.
Next ==
    \/ Core /\ Unrecorded /\ Unbatched /\ Unmanaged /\ \E initial \in Values : Quark(Caller, FALSE, initial, None, AbsentDeps)
    \/ Core /\ Unrecorded /\ Unbatched /\ Unmanaged /\ \E getter \in Getters(live) :
          \E deps \in {AbsentDeps, ListDeps(<<>>), ListDeps(getter.cells)} :
             Quark(Caller, TRUE, 0, getter, deps)
    \/ Core /\ Unrecorded /\ Unbatched /\ Unmanaged /\ \E self \in live : Read(Caller, self)
    \/ Core /\ Unrecorded /\ Unbatched /\ Unmanaged /\ \E self \in live, new_value \in Values : set(Caller, self, new_value)
    \/ Core /\ Unrecorded /\ Unbatched /\ Unmanaged /\ \E self \in live, callback \in UserCallbacks : subscribe(Caller, self, callback)
    \/ Core /\ Unrecorded /\ Unbatched /\ Unmanaged /\ \E self \in live, callback \in UserCallbacks : unsubscribe(Caller, self, callback)
    \/ Core /\ Unrecorded /\ Unbatched /\ Unmanaged /\ append(Caller)
    \/ Core /\ Unrecorded /\ Unbatched /\ Unmanaged /\ _notify_sync(Caller, 0)
    \/ Core /\ Unrecorded /\ Unbatched /\ Unmanaged /\ _safe_call(Caller, 0)

Spec == Init /\ [][Next]_vars

\* The specifications of several threads start from the cells
\* base = Quark(0) and doubled = Quark(lambda get: get(base) * 2, deps=[base]).
base == 1
doubled == 2
InitThreads ==
    /\ instance_counter = doubled
    /\ live = {base, doubled}
    /\ _getter = [c \in Cells |->
                     IF c = doubled THEN [fn |-> "double", cells |-> <<base>>] ELSE None]
    /\ _value = [c \in Cells |-> 0]
    /\ _callbacks = [c \in Cells |-> IF c = base THEN <<Handler(doubled)>> ELSE <<>>]
    /\ _deps = [c \in Cells |-> IF c = doubled THEN <<base>> ELSE <<>>]
    /\ _lock = [c \in Cells |-> 0]
    /\ stack = [t \in Threads |-> <<>>]
    /\ tasks = [t \in Threads |-> <<>>]
    /\ call = [t \in Threads |-> NoCall]
    /\ calls = [t \in Threads |-> <<>>]
    /\ pre = [t \in Threads |-> <<>>]
    /\ gone = [t \in Threads |-> {}]
    /\ written = [c \in Cells |-> 0]
    /\ _error_handler = [c \in Cells |-> NoHandler]
    /\ errors = [t \in Threads |-> <<>>]
    /\ order = <<>>
    /\ seen = <<>>
    /\ InitManager
    /\ InitBatch
    /\ InitCore

\* Every thread subscribes and unsubscribes; the threads other than the first
\* also write with set.  The steps of the threads interleave.
NextThreads ==
    \/ Core /\ Unrecorded /\ Unbatched /\ Unmanaged /\ \E t \in Threads, self \in live, callback \in UserCallbacks :
          subscribe(t, self, callback)
    \/ Core /\ Unrecorded /\ Unbatched /\ Unmanaged /\ \E t \in Threads, self \in live, callback \in UserCallbacks :
          unsubscribe(t, self, callback)
    \/ Core /\ Unrecorded /\ Unbatched /\ Unmanaged /\ \E t \in Threads \ {Caller}, self \in live, new_value \in Values :
          set(t, self, new_value)
    \/ Core /\ Unrecorded /\ Unbatched /\ Unmanaged /\ \E t \in Threads : append(t)
    \/ Core /\ Unrecorded /\ Unbatched /\ Unmanaged /\ \E t \in Threads : _notify_sync(t, 0)
    \/ Core /\ Unrecorded /\ Unbatched /\ Unmanaged /\ \E t \in Threads : _safe_call(t, 0)

SpecThreads == InitThreads /\ [][NextThreads]_vars

\* The first thread subscribes and unsubscribes while the others write with
\* set and set_async; the steps of the threads, and of the pool tasks of the
\* asynchronous writes, interleave.
NextAsync ==
    \/ Core /\ Unrecorded /\ Unbatched /\ Unmanaged /\ \E self \in live, callback \in UserCallbacks : subscribe(Caller, self, callback)
    \/ Core /\ Unrecorded /\ Unbatched /\ Unmanaged /\ \E self \in live, callback \in UserCallbacks : unsubscribe(Caller, self, callback)
    \/ Core /\ Unrecorded /\ Unbatched /\ Unmanaged /\ \E t \in Threads \ {Caller}, self \in live, new_value \in Values :
          set(t, self, new_value)
    \/ Core /\ Unrecorded /\ Unbatched /\ Unmanaged /\ \E t \in Threads \ {Caller}, self \in live, new_value \in Values :
          set_async(t, self, new_value)
    \/ Core /\ Unrecorded /\ Unbatched /\ Unmanaged /\ append(Caller)
    \/ Core /\ Unrecorded /\ Unbatched /\ Unmanaged /\ \E t \in Threads : \E k \in 0..Len(tasks[t]) : _notify_sync(t, k)
    \/ Core /\ Unrecorded /\ Unbatched /\ Unmanaged /\ \E t \in Threads : \E k \in 0..Len(tasks[t]) : _safe_call(t, k)
    \/ Core /\ Unrecorded /\ Unbatched /\ Unmanaged /\ \E t \in Threads : _notify(t)
    \/ Core /\ Unrecorded /\ Unbatched /\ \E t \in Threads : run_in_executor(t)
    \/ Core /\ Unrecorded /\ Unbatched /\ Unmanaged /\ \E t \in Threads : gather(t)

SpecAsync == InitThreads /\ [][NextAsync]_vars

\* One sequential caller subscribes callbacks that read and callbacks that
\* raise, sets and clears the error handlers of the cells, and writes with
\* set and set_async; the pool tasks of an asynchronous write interleave.
NextErrors ==
    \/ Core /\ Unrecorded /\ Unbatched /\ Unmanaged /\ \E self \in live, callback \in UserCallbacks \cup Failing :
          subscribe(Caller, self, callback)
    \/ Core /\ Unrecorded /\ Unbatched /\ Unmanaged /\ \E self \in live, callback \in UserCallbacks \cup Failing :
          unsubscribe(Caller, self, callback)
    \/ Core /\ Unrecorded /\ Unbatched /\ Unmanaged /\ \E self \in live, handler \in ErrorHandlers \cup {NoHandler} :
          set_error_handler(Caller, self, handler)
    \/ Core /\ Unrecorded /\ Unbatched /\ Unmanaged /\ \E self \in live, new_value \in Values :
          set(Caller, self, new_value)
    \/ Core /\ Unrecorded /\ Unbatched /\ Unmanaged /\ \E self \in live, new_value \in Values :
          set_async(Caller, self, new_value)
    \/ Core /\ Unrecorded /\ Unbatched /\ Unmanaged /\ append(Caller)
    \/ Core /\ Unrecorded /\ Unbatched /\ Unmanaged /\ \E k \in 0..Len(tasks[Caller]) : _notify_sync(Caller, k)
    \/ Core /\ Unrecorded /\ Unbatched /\ Unmanaged /\ \E k \in 0..Len(tasks[Caller]) : _safe_call(Caller, k)
    \/ Core /\ Unrecorded /\ Unbatched /\ Unmanaged /\ _notify(Caller)
    \/ Core /\ Unrecorded /\ Unbatched /\ run_in_executor(Caller)
    \/ Core /\ Unrecorded /\ Unbatched /\ Unmanaged /\ gather(Caller)

SpecErrors == InitThreads /\ [][NextErrors]_vars

\* Every thread writes base with set, MaxWrites times at most, while the
\* subscriber lists stay as they are: a reading callback and the handler of
\* doubled on base, a reading callback on doubled.  The specification keeps
\* the order in which the writes stored and the order of the invocations.
MaxWrites == 2
InitWriters ==
    /\ instance_counter = doubled
    /\ live = {base, doubled}
    /\ _getter = [c \in Cells |->
                     IF c = doubled THEN [fn |-> "double", cells |-> <<base>>] ELSE None]
    /\ _value = [c \in Cells |-> 0]
    /\ _callbacks = [c \in Cells |->
                        IF c = base THEN <<on_change, Handler(doubled)>>
                        ELSE IF c = doubled THEN <<second>>
                        ELSE <<>>]
    /\ _deps = [c \in Cells |-> IF c = doubled THEN <<base>> ELSE <<>>]
    /\ _lock = [c \in Cells |-> 0]
    /\ stack = [t \in Threads |-> <<>>]
    /\ tasks = [t \in Threads |-> <<>>]
    /\ call = [t \in Threads |-> NoCall]
    /\ calls = [t \in Threads |-> <<>>]
    /\ pre = [t \in Threads |-> <<>>]
    /\ gone = [t \in Threads |-> {}]
    /\ written = [c \in Cells |-> 0]
    /\ _error_handler = [c \in Cells |-> NoHandler]
    /\ errors = [t \in Threads |-> <<>>]
    /\ order = <<>>
    /\ seen = <<>>
    /\ InitManager
    /\ InitBatch
    /\ InitCore

\* the writes thread t has made
Writes(t) == Cardinality({k \in 1..Len(order) : order[k].thread = t})

\* the write of t has stored (inside the lock): it is the next in the order
Written(t, self, new_value) ==
    /\ order' = Append(order, [thread |-> t, cell |-> self, val |-> new_value])
    /\ seen' = seen

\* the invocation t has just made is the next one observed
Observed(t) ==
    /\ seen' = Append(seen, calls'[t][Len(calls'[t])])
    /\ order' = order

NextWriters ==
    \/ Core /\ Unbatched /\ Unmanaged /\ \E t \in Threads, new_value \in Values :
          /\ Writes(t) < MaxWrites
          /\ set(t, base, new_value)
          /\ Written(t, base, new_value)
    \/ Core /\ Unrecorded /\ Unbatched /\ Unmanaged /\ \E t \in Threads : _notify_sync(t, 0)
    \/ Core /\ Unbatched /\ Unmanaged /\ \E t \in Threads : _safe_call(t, 0) /\ Observed(t)

SpecWriters == InitWriters /\ [][NextWriters]_vars

\* Every thread increments base MaxWrites times at most, as
\* counter.set(counter.value + 1): it reads the value, and then writes what
\* it read plus one.
Holding(t) == call[t].op = "value" /\ call[t].status = "returned"
NextIncrements ==
    \/ Core /\ Unrecorded /\ Unbatched /\ Unmanaged /\ \E t \in Threads :
          /\ ~Holding(t)
          /\ Writes(t) < MaxWrites
          /\ Read(t, base)
    \/ Core /\ Unbatched /\ Unmanaged /\ \E t \in Threads :
          /\ Holding(t)
          /\ set(t, base, call[t].result + 1)
          /\ Written(t, base, call[t].result + 1)
    \/ Core /\ Unrecorded /\ Unbatched /\ Unmanaged /\ \E t \in Threads : _notify_sync(t, 0)
    \/ Core /\ Unbatched /\ Unmanaged /\ \E t \in Threads : _safe_call(t, 0) /\ Observed(t)

SpecIncrements == InitWriters /\ [][NextIncrements]_vars

\* The specifications at the lock grain start from base, doubled and a second
\* source cell, other = Quark(0).  A subscriber of doubled reads it; a
\* subscriber of base writes other, and the subscribers of other write base
\* and read doubled.
other == 3
Subscribers(c) ==
    IF c = base THEN <<Handler(doubled), Writer(other)>>
    ELSE IF c = doubled THEN <<on_change>>
    ELSE IF c = other THEN <<Writer(base), Reader(doubled)>>
    ELSE <<>>

InitLocks ==
    /\ instance_counter = other
    /\ live = {base, doubled, other}
    /\ _getter = [c \in Cells |->
                     IF c = doubled THEN [fn |-> "double", cells |-> <<base>>] ELSE None]
    /\ _value = [c \in Cells |-> 0]
    /\ _callbacks = [c \in Cells |-> Subscribers(c)]
    /\ _deps = [c \in Cells |-> IF c = doubled THEN <<base>> ELSE <<>>]
    /\ _lock = [c \in Cells |-> 0]
    /\ stack = [t \in Threads |-> <<>>]
    /\ tasks = [t \in Threads |-> <<>>]
    /\ call = [t \in Threads |-> NoCall]
    /\ calls = [t \in Threads |-> <<>>]
    /\ pre = [t \in Threads |-> <<>>]
    /\ gone = [t \in Threads |-> {}]
    /\ written = [c \in Cells |-> 0]
    /\ _error_handler = [c \in Cells |-> NoHandler]
    /\ errors = [t \in Threads |-> <<>>]
    /\ order = <<>>
    /\ seen = <<>>
    /\ InitManager
    /\ InitBatch
    /\ InitCore

\* a step of thread t inside the call it is in
Step(t) ==
    \/ leave_set(t)
    \/ acquire_notify_sync(t)
    \/ leave_notify_sync(t)
    \/ call_callback(t)
    \/ get(t)
    \/ leave_value(t)
    \/ append(t)
    \/ leave_unsubscribe(t)
    \/ unsubscribe_dep(t)
    \/ leave_cleanup(t)

\* The first thread writes base, and tries doubled, and the others write
\* other; every thread reads doubled, subscribes and unsubscribes a second
\* reader of base, and cleans doubled up; the steps of the threads interleave.
Targets(t) == IF t = Caller THEN {base, doubled} ELSE {other}
NextLocks ==
    \/ Core /\ Unrecorded /\ Unbatched /\ Unmanaged /\ \E t \in Threads, new_value \in Values :
          \E self \in Targets(t) : acquire_set(t, self, new_value)
    \/ Core /\ Unrecorded /\ Unbatched /\ Unmanaged /\ \E t \in Threads : acquire_value(t, doubled)
    \/ Core /\ Unrecorded /\ Unbatched /\ Unmanaged /\ \E t \in Threads : acquire_subscribe(t, base, second)
    \/ Core /\ Unrecorded /\ Unbatched /\ Unmanaged /\ \E t \in Threads : acquire_unsubscribe(t, base, second)
    \/ Core /\ Unrecorded /\ Unbatched /\ Unmanaged /\ \E t \in Threads : acquire_cleanup(t, doubled)
    \/ Core /\ Unrecorded /\ Unbatched /\ Unmanaged /\ \E t \in Threads : Step(t)

SpecLocks == InitLocks /\ [][NextLocks]_vars

\* The threads are scheduled fairly: a thread inside a call whose next step
\* is possible again and again (the lock it waits for is free again and
\* again) takes it in the end.  Callers need not make new calls.
Advance(t) == Core /\ Unrecorded /\ Unbatched /\ Unmanaged /\ Step(t)
FairLocks == SpecLocks /\ \A t \in Threads : SF_vars(Advance(t))

\* A derived cell with two dependencies, one of them derived itself:
\* combined = Quark(lambda get: get(base) + get(doubled), deps=[base, doubled]).
\* One thread writes base while every thread reads combined and doubled.
combined == 3
InitReads ==
    /\ instance_counter = combined
    /\ live = {base, doubled, combined}
    /\ _getter = [c \in Cells |->
                     IF c = doubled THEN [fn |-> "double", cells |-> <<base>>]
                     ELSE IF c = combined THEN [fn |-> "total", cells |-> <<base, doubled>>]
                     ELSE None]
    /\ _value = [c \in Cells |-> 0]
    /\ _callbacks = [c \in Cells |->
                        IF c = base THEN <<Handler(doubled), Handler(combined)>>
                        ELSE IF c = doubled THEN <<Handler(combined)>>
                        ELSE IF c = combined THEN <<on_change>>
                        ELSE <<>>]
    /\ _deps = [c \in Cells |->
                   IF c = doubled THEN <<base>>
                   ELSE IF c = combined THEN <<base, doubled>>
                   ELSE <<>>]
    /\ _lock = [c \in Cells |-> 0]
    /\ stack = [t \in Threads |-> <<>>]
    /\ tasks = [t \in Threads |-> <<>>]
    /\ call = [t \in Threads |-> NoCall]
    /\ calls = [t \in Threads |-> <<>>]
    /\ pre = [t \in Threads |-> <<>>]
    /\ gone = [t \in Threads |-> {}]
    /\ written = [c \in Cells |-> 0]
    /\ _error_handler = [c \in Cells |-> NoHandler]
    /\ errors = [t \in Threads |-> <<>>]
    /\ order = <<>>
    /\ seen = <<>>
    /\ InitManager
    /\ InitBatch
    /\ InitCore

NextReads ==
    \/ Core /\ Unrecorded /\ Unbatched /\ Unmanaged /\ \E new_value \in Values : acquire_set(Caller, base, new_value)
    \/ Core /\ Unrecorded /\ Unbatched /\ Unmanaged /\ \E t \in Threads, self \in {doubled, combined} :
          acquire_value(t, self)
    \/ Core /\ Unrecorded /\ Unbatched /\ Unmanaged /\ \E t \in Threads : Step(t)

SpecReads == InitReads /\ [][NextReads]_vars

\* A subscriber of base writes base itself: base.subscribe(lambda q:
\* base.set(MaxVal)), placed between the handler of doubled and a reading
\* callback.  One thread writes base while the others read base and doubled.
Reentrant(c) ==
    IF c = base THEN <<Handler(doubled), Writer(base), on_change>>
    ELSE IF c = doubled THEN <<on_change>>
    ELSE <<>>

InitReentrant ==
    /\ instance_counter = doubled
    /\ live = {base, doubled}
    /\ _getter = [c \in Cells |->
                     IF c = doubled THEN [fn |-> "double", cells |-> <<base>>] ELSE None]
    /\ _value = [c \in Cells |-> 0]
    /\ _callbacks = [c \in Cells |-> Reentrant(c)]
    /\ _deps = [c \in Cells |-> IF c = doubled THEN <<base>> ELSE <<>>]
    /\ _lock = [c \in Cells |-> 0]
    /\ stack = [t \in Threads |-> <<>>]
    /\ tasks = [t \in Threads |-> <<>>]
    /\ call = [t \in Threads |-> NoCall]
    /\ calls = [t \in Threads |-> <<>>]
    /\ pre = [t \in Threads |-> <<>>]
    /\ gone = [t \in Threads |-> {}]
    /\ written = [c \in Cells |-> 0]
    /\ _error_handler = [c \in Cells |-> NoHandler]
    /\ errors = [t \in Threads |-> <<>>]
    /\ order = <<>>
    /\ seen = <<>>
    /\ InitManager
    /\ InitBatch
    /\ InitCore

NextReentrant ==
    \/ Core /\ Unrecorded /\ Unbatched /\ Unmanaged /\ \E new_value \in Values : acquire_set(Caller, base, new_value)
    \/ Core /\ Unrecorded /\ Unbatched /\ Unmanaged /\ \E t \in Threads \ {Caller}, self \in {base, doubled} :
          acquire_value(t, self)
    \/ Core /\ Unrecorded /\ Unbatched /\ Unmanaged /\ \E t \in Threads : Step(t)

SpecReentrant == InitReentrant /\ [][NextReentrant]_vars
FairReentrant == SpecReentrant /\ \A t \in Threads : SF_vars(Advance(t))

\* A derived cell over two source cells: paired = Quark(MaxVal - MaxVal) is a
\* second source, and here the third cell is
\* Quark(lambda get: get(base) + get(paired), deps=[base, paired]).
\* One thread updates base and then paired, once, while the others read the
\* derived cell.
paired == 2
InitPair ==
    /\ instance_counter = combined
    /\ live = {base, paired, combined}
    /\ _getter = [c \in Cells |->
                     IF c = combined THEN [fn |-> "total", cells |-> <<base, paired>>]
                     ELSE None]
    /\ _value = [c \in Cells |-> 0]
    /\ _callbacks = [c \in Cells |->
                        IF c \in {base, paired} THEN <<Handler(combined)>>
                        ELSE IF c = combined THEN <<on_change>>
                        ELSE <<>>]
    /\ _deps = [c \in Cells |-> IF c = combined THEN <<base, paired>> ELSE <<>>]
    /\ _lock = [c \in Cells |-> 0]
    /\ stack = [t \in Threads |-> <<>>]
    /\ tasks = [t \in Threads |-> <<>>]
    /\ call = [t \in Threads |-> NoCall]
    /\ calls = [t \in Threads |-> <<>>]
    /\ pre = [t \in Threads |-> <<>>]
    /\ gone = [t \in Threads |-> {}]
    /\ written = [c \in Cells |-> 0]
    /\ _error_handler = [c \in Cells |-> NoHandler]
    /\ errors = [t \in Threads |-> <<>>]
    /\ order = <<>>
    /\ seen = <<>>
    /\ InitManager
    /\ InitBatch
    /\ InitCore

NextPair ==
    \/ Core /\ Unrecorded /\ Unbatched /\ Unmanaged /\ call[Caller].op = "" /\ acquire_set(Caller, base, MaxVal)
    \/ Core /\ Unrecorded /\ Unbatched /\ Unmanaged /\ call[Caller].self = base /\ acquire_set(Caller, paired, MaxVal)
    \/ Core /\ Unrecorded /\ Unbatched /\ Unmanaged /\ \E t \in Threads \ {Caller} : acquire_value(t, combined)
    \/ Core /\ Unrecorded /\ Unbatched /\ Unmanaged /\ \E t \in Threads : Step(t)

SpecPair == InitPair /\ [][NextPair]_vars

\* The first thread writes base with set_async, and every thread that is in
\* no call asks for the shared pool, shuts it down or resets it; the steps
\* of the threads, and of the pool tasks, interleave.
Ready(t) == Idle(t) /\ job[t].pc = "done"
manager_step(t) ==
    \/ get_executor_is_none(t)
    \/ get_executor_lock(t)
    \/ get_executor_create(t)
    \/ get_executor_return(t)
    \/ cleanup_lock(t)
    \/ shutdown(t)
    \/ wait(t)
    \/ reset_shutdown(t)
NextExecutor ==
    \/ Core /\ Unrecorded /\ Unbatched /\ Unmanaged /\ \E new_value \in Values :
          Ready(Caller) /\ set_async(Caller, base, new_value)
    \/ Core /\ Unrecorded /\ Unbatched /\ Unmanaged /\ _notify(Caller)
    \/ Core /\ Unrecorded /\ Unbatched /\ run_in_executor(Caller)
    \/ Core /\ Unrecorded /\ Unbatched /\ Unmanaged /\ \E k \in 1..Len(tasks[Caller]) : _notify_sync(Caller, k)
    \/ Core /\ Unrecorded /\ Unbatched /\ Unmanaged /\ \E k \in 1..Len(tasks[Caller]) : _safe_call(Caller, k)
    \/ Core /\ Unrecorded /\ Unbatched /\ Unmanaged /\ gather(Caller)
    \/ Core /\ Unrecorded /\ Unbatched /\ \E t \in Threads : Ready(t) /\ get_executor(t)
    \/ Core /\ Unrecorded /\ Unbatched /\ \E t \in Threads : Ready(t) /\ cleanup(t)
    \/ Core /\ Unrecorded /\ Unbatched /\ \E t \in Threads : Ready(t) /\ reset(t)
    \/ Core /\ Unrecorded /\ Unbatched /\ \E t \in Threads : manager_step(t)

SpecExecutor == InitWriters /\ [][NextExecutor]_vars

\* One call after the other, as in test_executor_manager_reset: the first
\* thread asks for the pool and writes base with set_async, and a second
\* thread, the owner of the pool's life cycle, shuts it down and resets it;
\* a call begins when every earlier call has returned.
Owner == CHOOSE t \in Threads \ {Caller} : \A u \in Threads \ {Caller} : t <= u
Sequential == \A t \in Threads : Ready(t)
NextShutdown ==
    \/ Core /\ Unrecorded /\ Unbatched /\ Unmanaged /\ \E new_value \in Values :
          Sequential /\ set_async(Caller, base, new_value)
    \/ Core /\ Unrecorded /\ Unbatched /\ Unmanaged /\ _notify(Caller)
    \/ Core /\ Unrecorded /\ Unbatched /\ run_in_executor(Caller)
    \/ Core /\ Unrecorded /\ Unbatched /\ Unmanaged /\ \E k \in 1..Len(tasks[Caller]) : _notify_sync(Caller, k)
    \/ Core /\ Unrecorded /\ Unbatched /\ Unmanaged /\ \E k \in 1..Len(tasks[Caller]) : _safe_call(Caller, k)
    \/ Core /\ Unrecorded /\ Unbatched /\ Unmanaged /\ gather(Caller)
    \/ Core /\ Unrecorded /\ Unbatched /\ Sequential /\ get_executor(Caller)
    \/ Core /\ Unrecorded /\ Unbatched /\ Sequential /\ cleanup(Owner)
    \/ Core /\ Unrecorded /\ Unbatched /\ Sequential /\ reset(Owner)
    \/ Core /\ Unrecorded /\ Unbatched /\ \E t \in Threads : manager_step(t)

SpecShutdown == InitWriters /\ [][NextShutdown]_vars

\* The cells of InitPair, with a second subscriber on base besides the
\* handler of combined.
InitRelease ==
    /\ instance_counter = combined
    /\ live = {base, paired, combined}
    /\ _getter = [c \in Cells |->
                     IF c = combined THEN [fn |-> "total", cells |-> <<base, paired>>]
                     ELSE None]
    /\ _value = [c \in Cells |-> 0]
    /\ _callbacks = [c \in Cells |->
                        IF c = base THEN <<Handler(combined), second>>
                        ELSE IF c = paired THEN <<Handler(combined)>>
                        ELSE IF c = combined THEN <<on_change>>
                        ELSE <<>>]
    /\ _deps = [c \in Cells |-> IF c = combined THEN <<base, paired>> ELSE <<>>]
    /\ _lock = [c \in Cells |-> 0]
    /\ stack = [t \in Threads |-> <<>>]
    /\ tasks = [t \in Threads |-> <<>>]
    /\ call = [t \in Threads |-> NoCall]
    /\ calls = [t \in Threads |-> <<>>]
    /\ pre = [t \in Threads |-> <<>>]
    /\ gone = [t \in Threads |-> {}]
    /\ written = [c \in Cells |-> 0]
    /\ _error_handler = [c \in Cells |-> NoHandler]
    /\ errors = [t \in Threads |-> <<>>]
    /\ order = <<>>
    /\ seen = <<>>
    /\ InitManager
    /\ InitBatch
    /\ InitCore

\* One call after the other: the first thread writes the three cells, and
\* the other threads release (cleanup) the derived cell and one of its
\* dependencies, each any number of times.
NextRelease ==
    \/ Core /\ Unrecorded /\ Unbatched /\ Unmanaged /\ \E self \in live, new_value \in Values :
          Sequential /\ acquire_set(Caller, self, new_value)
    \/ Core /\ Unrecorded /\ Unbatched /\ Unmanaged /\ \E t \in Threads \ {Caller}, self \in {combined, base} :
          Sequential /\ acquire_cleanup(t, self)
    \/ Core /\ Unrecorded /\ Unbatched /\ Unmanaged /\ \E t \in Threads : Step(t)

SpecRelease == InitRelease /\ [][NextRelease]_vars

\* One sequential caller writes the three cells, inside batch scopes and
\* outside them.
NextBatch ==
    \/ Core /\ Unrecorded /\ Unmanaged /\ enter_batch_scope(Caller)
    \/ Core /\ Unrecorded /\ Unmanaged /\ \E self \in live, new_value \in Values :
          write_in_batch(Caller, self, new_value)
    \/ Core /\ Unrecorded /\ Unmanaged /\ register(Caller)
    \/ Core /\ Unrecorded /\ Unmanaged /\ exit_batch_scope(Caller)
    \/ Core /\ Unrecorded /\ Unmanaged /\ Unbatched /\ \E self \in live, new_value \in Values :
          ~batching[Caller] /\ set(Caller, self, new_value)
    \/ Core /\ Unrecorded /\ Unmanaged /\ Unbatched /\ _notify_sync(Caller, 0)
    \/ Core /\ Unrecorded /\ Unmanaged /\ Unbatched /\ _safe_call(Caller, 0)

SpecBatch == InitRelease /\ [][NextBatch]_vars

\* Every thread constructs cells, sources and derived cells over the cells
\* that exist, with and without the dependency list a getter needs; the
\* constructors of the threads overlap.
NextIds ==
    \/ Core /\ Unrecorded /\ Unbatched /\ Unmanaged /\ \E t \in Threads : __init__(t)
    \/ Core /\ Unrecorded /\ Unbatched /\ Unmanaged /\ \E t \in Threads, initial \in Values :
          initialize(t, FALSE, initial, None, AbsentDeps)
    \/ Core /\ Unrecorded /\ Unbatched /\ Unmanaged /\ \E t \in Threads, getter \in Getters(live) :
          \E deps \in {AbsentDeps, ListDeps(getter.cells)} :
             initialize(t, TRUE, 0, getter, deps)

SpecIds == Init /\ [][NextIds]_vars


\* ================================================================ claims
IsUser(cb) == cb.fn # "_on_dep_change"
Callbacks == UserCallbacks \cup {Handler(d) : d \in Cells}

\* how often the call of t has invoked callback cb of cell
Invoked(t, cell, cb) ==
    Cardinality({i \in 1..Len(calls[t]) :
                    calls[t][i].cell = cell /\ calls[t][i].cb = cb})

\* What a cell denotes: a source cell the value its caller last handed to it,
\* a derived cell its function of what the cells it reads denote.
RECURSIVE Denotes(_)
RECURSIVE DenotesTotal(_)
DenotesTotal(cells) ==
    IF cells = <<>> THEN 0 ELSE Denotes(Head(cells)) + DenotesTotal(Tail(cells))

Denotes(c) ==
    IF _getter[c] = None THEN written[c]
    ELSE IF _getter[c].fn = "double" THEN 2 * Denotes(_getter[c].cells[1])
    ELSE DenotesTotal(_getter[c].cells)

\* derived cell d depends on cell a through declared dependencies
RECURSIVE DependsOn(_, _)
DependsOn(d, a) ==
    /\ _getter[d] # None
    /\ \E k \in 1..Len(_deps[d]) : _deps[d][k] = a \/ DependsOn(_deps[d][k], a)

\* C1: under a single sequential caller, a read of a source cell returns the
\* value of the last write to it, or its initial value when none was made.
C1_LastWriteWins ==
    \A t \in Threads :
        (call[t].op = "value" /\ _getter[call[t].self] = None)
            => call[t].result = written[call[t].self]

\* A read of a source cell returned its last written value, and a cell
\* derived from it was built from another value: a write came in between.
C1_Witness ==
    \E t \in Threads, d \in live :
        /\ call[t].op = "value"
        /\ _getter[call[t].self] = None
        /\ call[t].result = written[call[t].self]
        /\ _getter[d] = [fn |-> "double", cells |-> <<call[t].self>>]
        /\ _value[d] # 2 * call[t].result

\* C2: every read of a derived cell, by the caller or by a subscriber, returns
\* its function applied to what its cells hold now, through chains of derived
\* cells and with several dependencies.
C2_DerivedIsFunctionOfDeps ==
    \A t \in Threads :
        /\ call[t].op = "value" => call[t].result = Denotes(call[t].self)
        /\ \A i \in 1..Len(calls[t]) :
              IsUser(calls[t][i].cb) => calls[t][i].val = Denotes(calls[t][i].cell)

\* A read of total(a, double(a)), built when a was 0, returns 3 once a is 1.
C2_Witness ==
    \E t \in Threads, a, b, c \in live :
        /\ call[t].op = "value" /\ call[t].self = c
        /\ _getter[a] = None /\ written[a] = 1
        /\ _getter[b] = [fn |-> "double", cells |-> <<a>>]
        /\ _getter[c] = [fn |-> "total", cells |-> <<a, b>>]
        /\ _value[c] = 0
        /\ call[t].result = 3

\* C3: when set on a source cell has returned, every subscriber of every
\* derived cell that depends on it, directly or through other derived cells,
\* has been invoked and has read the value recomputed from the new value.
C3_WritePropagatesDownChain ==
    \A t \in Threads :
        (call[t].op = "set" /\ call[t].status = "returned")
            => \A d \in live :
                  DependsOn(d, call[t].self)
                      => \A k \in 1..Len(_callbacks[d]) :
                            IsUser(_callbacks[d][k])
                                => \E i \in 1..Len(calls[t]) :
                                      calls[t][i] =
                                          Invocation(d, _callbacks[d][k], Denotes(d))

\* a -> b = double(a) -> c = double(b); b has no subscriber but c's handler;
\* set(a, 1) has returned and c's subscriber has read 4.
C3_Witness ==
    \E t \in Threads, a, b, c \in live, cb \in UserCallbacks :
        /\ call[t] = Call("set", a, 1, NoCallback, "returned", 0)
        /\ _getter[b] = [fn |-> "double", cells |-> <<a>>]
        /\ _getter[c] = [fn |-> "double", cells |-> <<b>>]
        /\ _callbacks[b] = <<Handler(c)>>
        /\ In(cb, _callbacks[c])
        /\ In(Invocation(c, cb, 4), calls[t])

\* C4: when set on a source cell has returned, each callback that was in its
\* subscriber list when set was called has been invoked exactly once for the
\* cell, and no other callback has, whatever value was written.
C4_EachSubscriberOncePerWrite ==
    \A t \in Threads :
        (call[t].op = "set" /\ call[t].status = "returned")
            => \A cb \in Callbacks :
                  Invoked(t, call[t].self, cb) = IF In(cb, pre[t]) THEN 1 ELSE 0

\* set has returned on a cell with two user subscribers and the handler of a
\* derived cell; each was invoked once.
C4_Witness ==
    \E t \in Threads, d \in live :
        /\ call[t].op = "set" /\ call[t].status = "returned"
        /\ \A cb \in UserCallbacks : In(cb, pre[t]) /\ Invoked(t, call[t].self, cb) = 1
        /\ In(Handler(d), pre[t]) /\ Invoked(t, call[t].self, Handler(d)) = 1

\* C5: a subscribe call invokes no callback, neither while it runs nor when it
\* has returned; only writes invoke callbacks.
C5_SubscribeDoesNotNotify ==
    \A t \in Threads :
        /\ call[t].op = "subscribe" => calls[t] = <<>>
        /\ calls[t] # <<>> => call[t].op \in {"set", "set_async"}

\* subscribe has returned, having added the callback, and nothing was invoked
C5_Witness ==
    \E t \in Threads :
        /\ call[t].op = "subscribe" /\ call[t].status = "returned"
        /\ call[t].result = 0
        /\ In(call[t].cb, _callbacks[call[t].self])
        /\ calls[t] = <<>>

\* C6: no subscriber list ever holds a callback twice, whatever threads
\* subscribe and unsubscribe, and one write invokes a callback of the written
\* cell at most once.
C6_NoDuplicateSubscribers ==
    /\ \A c \in Cells, cb \in Callbacks : Count(_callbacks[c], cb) <= 1
    /\ \A t \in Threads, cb \in Callbacks :
          call[t].op = "set" => Invoked(t, call[t].self, cb) <= 1

\* A thread has subscribed a callback that was already subscribed, the list
\* holds it once, and a write by another thread has invoked it once.
C6_Witness ==
    \E t, u \in Threads :
        /\ t # u
        /\ call[t].op = "subscribe" /\ call[t].status = "returned" /\ call[t].result = 1
        /\ Count(_callbacks[call[t].self], call[t].cb) = 1
        /\ call[u].op = "set" /\ call[u].status = "returned"
        /\ call[u].self = call[t].self
        /\ Invoked(u, call[u].self, call[t].cb) = 1

\* C7: unsubscribe of a callback that is not in the subscriber list returns
\* normally and changes no cell: no list, no value, no getter, no deps.
C7_UnsubscribeAbsentIsNoOp ==
    [][\A t \in Threads, self \in Cells, callback \in UserCallbacks :
          (~In(callback, _callbacks[self]) /\ unsubscribe(t, self, callback))
              => (call'[t].status = "returned" /\ UNCHANGED quarkVars)]_vars

\* unsubscribe of an absent callback has returned on a cell that has subscribers
C7_Witness ==
    \E t \in Threads :
        /\ call[t].op = "unsubscribe" /\ call[t].status = "returned"
        /\ call[t].result = 0
        /\ \E cb \in UserCallbacks : In(cb, _callbacks[call[t].self])

\* C8: a write that began after unsubscribe(callback) had returned on its
\* cell never invokes that callback for the cell, unless the callback has been
\* subscribed again since.
C8_NoCallAfterUnsubscribe ==
    [][\A t \in Threads :
          Len(calls'[t]) = Len(calls[t]) + 1
              => ~ /\ calls'[t][Len(calls'[t])].cell = call[t].self
                   /\ calls'[t][Len(calls'[t])].cb \in gone[t]]_vars

\* An asynchronous write that began after an unsubscribe had returned is
\* running and has invoked another subscriber of the cell.
C8_Witness ==
    \E t \in Threads, cb \in UserCallbacks :
        /\ call[t].op = "set_async" /\ call[t].status = "running"
        /\ gone[t] # {}
        /\ cb \notin gone[t]
        /\ Invoked(t, call[t].self, cb) = 1

\* C9: set and set_async on a derived cell raise ValueError, change no cell
\* (value, subscriber list, deps) and invoke no subscriber.
C9_DerivedCannotBeSet ==
    [][\A t \in Threads, self \in Cells, new_value \in Values :
          (/\ _getter[self] # None
           /\ set(t, self, new_value) \/ set_async(t, self, new_value))
              => /\ call'[t].status = "ValueError"
                 /\ UNCHANGED quarkVars
                 /\ calls'[t] = <<>> /\ stack'[t] = <<>> /\ tasks'[t] = <<>>]_vars

\* set_async on a derived cell that has a subscriber has raised ValueError
C9_Witness ==
    \E t \in Threads :
        /\ call[t].op = "set_async" /\ call[t].status = "ValueError"
        /\ _getter[call[t].self] # None
        /\ _callbacks[call[t].self] # <<>>
        /\ calls[t] = <<>>

\* C10: constructing a derived cell with deps absent or empty raises
\* ValueError and yields no cell; with at least one dependency it returns a
\* cell whose stored value is its function of what its cells hold.
C10_DerivedNeedsDeps ==
    [][\A getter \in Getters(live) :
          \A deps \in {AbsentDeps, ListDeps(<<>>), ListDeps(getter.cells)} :
             Quark(Caller, TRUE, 0, getter, deps)
                 => IF deps.none \/ deps.items = <<>>
                    THEN /\ call'[Caller].status = "ValueError"
                         /\ live' = live
                         /\ UNCHANGED <<_getter, _value, _callbacks, _deps>>
                    ELSE /\ call'[Caller].status = "returned"
                         /\ live' = live \cup {instance_counter'}
                         /\ _getter'[instance_counter'] = getter
                         /\ _value'[instance_counter'] =
                               ApplyGetter(getter,
                                   [d \in Cells |-> IF In(d, getter.cells)
                                                    THEN Denotes(d) ELSE 0])]_vars

\* a construction with a getter and no deps has raised ValueError, and one
\* with deps had succeeded before
C10_Witness ==
    /\ call[Caller].op = "Quark" /\ call[Caller].status = "ValueError"
    /\ call[Caller].self \notin live
    /\ \E d \in live : _getter[d] # None

\* every callback a subscriber list can hold, the raising ones included
AllCallbacks == Callbacks \cup Failing

\* the invocations of log that raised on a cell whose error handler is set
RECURSIVE Handled(_)
Handled(log) ==
    IF log = <<>> THEN <<>>
    ELSE LET x == Head(log) IN
         (IF Raised(x.cb) # "none" /\ _error_handler[x.cell] # NoHandler
          THEN <<ErrorCall(_error_handler[x.cell], Raised(x.cb), x.cb, x.cell)>>
          ELSE <<>>) \o Handled(Tail(log))

C12_ErrorHandlerOncePerError ==
    \A t \in Threads :
        call[t].op \in {"set", "set_async"}
            => /\ errors[t] = Handled(calls[t])
               /\ call[t].status \in {"running", "returned", "ValueError"}
               /\ (call[t].status = "returned" /\ _getter[call[t].self] = None)
                     => \A cb \in AllCallbacks :
                           In(cb, pre[t]) => Invoked(t, call[t].self, cb) = 1

\* A write has returned on a cell whose handler raises itself: the raising
\* subscriber was handed to the handler once, and the subscriber behind it
\* was invoked.
C12_Witness ==
    \E t \in Threads, i, j \in 1..(MaxSubs + 1) :
        /\ call[t].op = "set" /\ call[t].status = "returned"
        /\ _error_handler[call[t].self] = "bad_handler"
        /\ i < j /\ j <= Len(pre[t])
        /\ pre[t][i] \in Failing /\ pre[t][j] \in UserCallbacks
        /\ errors[t] = <<ErrorCall("bad_handler", "ValueError", pre[t][i], call[t].self)>>
        /\ Invoked(t, call[t].self, pre[t][j]) = 1

\* the callbacks a log shows invoked for cell, in the order of the log
RECURSIVE OnCell(_, _)
OnCell(log, cell) ==
    IF log = <<>> THEN <<>>
    ELSE (IF Head(log).cell = cell THEN <<Head(log).cb>> ELSE <<>>)
             \o OnCell(Tail(log), cell)

IsPrefix(s, list) == Len(s) <= Len(list) /\ s = SubSeq(list, 1, Len(s))

Without(list, i) == SubSeq(list, 1, i - 1) \o SubSeq(list, i + 1, Len(list))

\* C13: a subscriber list changes only by a callback it did not hold being
\* added at its end or by one callback being taken out, so it lists the
\* callbacks in the order they were first subscribed; and a pass of set runs
\* on the stack of the thread that called set, with no pool task, and has at
\* every moment invoked a beginning of that list, in its order.
C13_SyncPassInSubscriptionOrder ==
    [][/\ \A c \in Cells :
             _callbacks'[c] # _callbacks[c]
                => \/ \E cb \in AllCallbacks :
                         /\ ~In(cb, _callbacks[c])
                         /\ _callbacks'[c] = Append(_callbacks[c], cb)
                   \/ \E i \in 1..Len(_callbacks[c]) :
                         _callbacks'[c] = Without(_callbacks[c], i)
       /\ \A t \in Threads :
             call'[t].op = "set"
                => /\ tasks'[t] = <<>>
                   /\ \A c \in Cells : IsPrefix(OnCell(calls'[t], c), _callbacks'[c])
      ]_vars

\* set has returned on a cell with three subscribers, one of them raising and
\* a later one reading: the log shows them invoked in the order of the list.
C13_Witness ==
    \E t \in Threads :
        /\ call[t].op = "set" /\ call[t].status = "returned"
        /\ Len(pre[t]) >= 3
        /\ pre[t][2] \in Failing /\ pre[t][3] \in UserCallbacks
        /\ OnCell(calls[t], call[t].self) = pre[t]
        /\ tasks[t] = <<>>

\* the pass of thread t is about to invoke a callback of cell c
Invoking(t, c) ==
    /\ stack[t] # <<>>
    /\ Top(t, 0).pc = "for"
    /\ Top(t, 0).self = c

\* C14: whenever a thread is about to invoke a subscriber of a cell, it does
\* not hold that cell's lock: set has left the block in which it stored, and
\* the pass the block in which it copied the list.
C14_LockNotHeldWhileNotifying ==
    \A t \in Threads, c \in Cells :
        Invoking(t, c) => /\ _lock[c] # t
                          /\ ~Holds(stack[t], c)

\* A thread is about to invoke a subscriber of base for the value it stored,
\* while another thread is inside a locked block of base.
C14_Witness ==
    \E t, u \in Threads :
        /\ Invoking(t, base)
        /\ call[t].op = "set" /\ call[t].self = base
        /\ Top(t, 0).callbacks_copy # <<>>
        /\ u # t /\ _lock[base] = u /\ Holds(stack[u], base)

\* The sections of a cell that change its value or its subscriber list or
\* copy the list: the blocks of set, subscribe, unsubscribe, cleanup and of
\* the notification pass.
Sections == {"store", "append", "remove", "cleanup", "copy"}
Inside(t, c) ==
    \E k \in 1..Len(stack[t]) : stack[t][k].self = c /\ stack[t][k].pc \in Sections

\* C15: at any time at most one thread is inside a section of a cell that
\* stores its value, changes its subscriber list or copies it, and that
\* thread holds the cell's lock; so the stores of two writers of one cell
\* come one after the other.
C15_SectionsMutuallyExclusive ==
    \A c \in Cells :
        /\ Cardinality({t \in Threads : Inside(t, c)}) <= 1
        /\ \A t \in Threads : Inside(t, c) => _lock[c] = t

\* One thread is inside the storing block of base while another, which has
\* stored into base too, stands before the block that copies base's list.
C15_Witness ==
    \E t, u \in Threads :
        /\ t # u
        /\ stack[t] # <<>> /\ Top(t, 0).pc = "store" /\ Top(t, 0).self = base
        /\ stack[u] # <<>> /\ Top(u, 0).pc = "_notify_sync" /\ Top(u, 0).self = base
        /\ Inside(t, base) /\ ~Inside(u, base)

\* thread t is inside the getter of derived cell d, between two get() calls
Computing(t, d) ==
    /\ stack[t] # <<>>
    /\ Top(t, 0).pc = "compute"
    /\ Top(t, 0).self = d
    /\ _getter[d] # None

\* C16, as the claim states it: a thread reading a derived cell never holds
\* that cell's lock and the lock of one of the cells its getter reads at the
\* same time.
C16_NeverOwnAndDependencyLock ==
    \A t \in Threads, d \in Cells :
        (_getter[d] # None /\ call[t].op = "value" /\ _lock[d] = t)
            => \A k \in 1..Len(_getter[d].cells) : _lock[_getter[d].cells[k]] # t

\* C16, amended: a read of a derived cell holds the cell's own lock as long
\* as its getter runs, and takes the lock of each cell the getter reads for
\* that one get() only: between two get() calls the thread holds the locks
\* of the blocks it is inside, and of no cell it has finished reading.
C16_DependencyLocksOneAtATime ==
    \A t \in Threads, d \in Cells :
        Computing(t, d)
            => /\ _lock[d] = t
               /\ \A c \in Cells : _lock[c] = t => Holds(stack[t], c)

\* A thread reading combined has read base and is about to read doubled: it
\* holds combined's lock and not base's, which a writer holds meanwhile.
C16_Witness ==
    \E t, u \in Threads :
        /\ Computing(t, combined)
        /\ call[t].op = "value" /\ call[t].self = combined
        /\ Top(t, 0).i = 2
        /\ _lock[combined] = t
        /\ u # t /\ _lock[base] = u

\* thread t is inside a public call
Running(t) == stack[t] # <<>>

\* C17: with threads writing different cells whose subscribers read and
\* write the other cells and the derived cell, and reading, subscribing,
\* unsubscribing and cleaning up meanwhile, there is never a state in which
\* threads are inside calls and none of them can take a step, and every
\* call that has begun returns in the end.
C17_EveryCallReturns ==
    /\ []((\E t \in Threads : Running(t)) => \E t \in Threads : ENABLED Advance(t))
    /\ \A t \in Threads : Running(t) ~> ~Running(t)

\* Two threads are each in the middle of a pass, one about to invoke base's
\* subscriber that writes other, the other about to invoke other's
\* subscriber that writes base.
C17_Witness ==
    \E t, u \in Threads :
        /\ t # u
        /\ Invoking(t, base) /\ Invoking(u, other)
        /\ Top(t, 0).i <= Len(Top(t, 0).callbacks_copy)
        /\ Top(u, 0).i <= Len(Top(u, 0).callbacks_copy)
        /\ Top(t, 0).callbacks_copy[Top(t, 0).i] = Writer(other)
        /\ Top(u, 0).callbacks_copy[Top(u, 0).i] = Writer(base)

\* The invocations on a cell of a write whose list holds, at place w, a
\* callback that writes the cell again while n more nested writes are due:
\* the callbacks up to the writer, the whole of the nested write's pass, and
\* then the callbacks behind the writer.
RECURSIVE Nested(_, _, _)
Nested(list, w, n) ==
    IF n = 0 THEN list
    ELSE SubSeq(list, 1, w) \o Nested(list, w, n - 1) \o SubSeq(list, w + 1, Len(list))

\* the place of callback cb in a list that holds it
Place(list, cb) == CHOOSE k \in 1..Len(list) : list[k] = cb

\* C18: when a subscriber of the cell being written writes that cell again,
\* the invocations of the outer write are, at every moment, a beginning of:
\* the callbacks up to the writer, then the nested write's complete pass
\* over the list, then the rest of the outer pass; once the nested pass has
\* begun the cell holds the nested value; and the outer write returns.
C18_ReentrantWriteRunsFreshPass ==
    /\ [](\A t \in Threads :
             (call[t].op = "set" /\ In(Writer(call[t].self), pre[t]))
                => LET self == call[t].self
                       w == Place(pre[t], Writer(self))
                       expected == Nested(pre[t], w, MaxNest)
                       invoked == OnCell(calls[t], self)
                   IN /\ IsPrefix(invoked, expected)
                      /\ ~Running(t) => invoked = expected
                      /\ Len(invoked) > w => _value[self] = MaxVal)
    /\ \A t \in Threads : Running(t) ~> ~Running(t)

\* The write of 0 to base has returned: its subscriber wrote MaxVal, the
\* nested pass invoked all three subscribers, and after it the outer pass
\* invoked the reading callback.
C18_Witness ==
    /\ call[Caller].op = "set" /\ call[Caller].self = base /\ call[Caller].arg = 0
    /\ ~Running(Caller)
    /\ call[Caller].status = "returned"
    /\ _value[base] = MaxVal
    /\ Len(OnCell(calls[Caller], base)) = (MaxNest + 1) * Len(Reentrant(base))
    /\ Invoked(Caller, base, on_change) = MaxNest + 1

\* the values callback cb of cell was handed, in the order of its invocations
RECURSIVE SeenBy(_, _, _)
SeenBy(log, cell, cb) ==
    IF log = <<>> THEN <<>>
    ELSE (IF Head(log).cell = cell /\ Head(log).cb = cb THEN <<Head(log).val>> ELSE <<>>)
             \o SeenBy(Tail(log), cell, cb)

\* no thread is inside a call
AllIdle == \A t \in Threads : Idle(t)

\* C19: with the subscriber lists fixed and every thread writing base, each
\* callback subscribed to base or to the derived cell doubled has been
\* invoked at most once per write that has stored, and exactly once per
\* write when all the writes have returned: NThreads * MaxWrites times when
\* every thread has made its MaxWrites writes.
C19_NoNotificationLostOrDuplicated ==
    \A c \in {base, doubled}, cb \in UserCallbacks :
        LET times == Len(SeenBy(seen, c, cb)) IN
        IF In(cb, _callbacks[c])
        THEN /\ times <= Len(order)
             /\ AllIdle => times = Len(order)
        ELSE times = 0

\* Every thread has made its MaxWrites writes, two threads taking turns, and
\* all have returned; the subscribers of base and of doubled were invoked
\* NThreads * MaxWrites times each.
C19_Witness ==
    /\ AllIdle
    /\ Len(order) = NThreads * MaxWrites
    /\ \A t \in Threads : Writes(t) = MaxWrites
    /\ order[1].thread # order[2].thread
    /\ Len(SeenBy(seen, base, on_change)) = NThreads * MaxWrites
    /\ Len(SeenBy(seen, doubled, second)) = NThreads * MaxWrites

\* C20, as the claim states it: the k-th notification delivered to the
\* subscriber of base reads the value of the k-th write in the order in
\* which the writes took base's lock.
C20_NotificationsFollowWriteOrder ==
    LET observed == SeenBy(seen, base, on_change) IN
    \A k \in 1..Len(observed) : k <= Len(order) /\ observed[k] = order[k].val

\* C21, as the claim states it: when every thread has made its MaxWrites
\* increments of base, each a read followed by a write of the value read
\* plus one, and all have returned, base holds the number of increments made.
C21_AllIncrementsCounted ==
    (AllIdle /\ \A t \in Threads : Writes(t) = MaxWrites /\ ~Holding(t))
        => _value[base] = NThreads * MaxWrites

\* get(dep) of thread t returns in this step to the getter that called it
Returns(t) ==
    /\ Len(stack[t]) >= 2
    /\ Top(t, 0).pc = "compute"
    /\ stack[t][Len(stack[t]) - 1].pc = "compute"
    /\ Len(stack'[t]) = Len(stack[t]) - 1

\* C22: a read of a derived cell reads its dependencies one by one, not as
\* one snapshot: each get(dep) returns the value dep holds at that moment
\* and leaves dep's lock free again, while the reader keeps only the derived
\* cell's lock; so a read that runs while a writer updates base and then
\* paired computes from the updated base and the paired not yet updated.
C22_DependenciesReadOneByOne ==
    [][\A t \in Threads :
          Returns(t)
             => LET dep == Top(t, 0).self
                    getter == stack[t][Len(stack[t]) - 1]
                    current == IF _getter[dep] = None THEN _value[dep]
                               ELSE ApplyReads(_getter[dep], Top(t, 0).arg)
                IN /\ stack'[t][Len(stack'[t])].arg = Append(getter.arg, current)
                   /\ _lock'[dep] # t
                   /\ _lock'[getter.self] = t
      ]_vars

\* While the writer is between its two updates, a thread reading the derived
\* cell has read MaxVal from base, which the writer has updated, and 0 from
\* paired, which it has not: the read is about to return MaxVal + 0.
C22_Witness ==
    \E t \in Threads \ {Caller} :
        /\ Computing(t, combined)
        /\ call[t].op = "value"
        /\ Top(t, 0).arg = <<MaxVal, 0>>
        /\ call[Caller].op = "set" /\ call[Caller].self = base /\ Running(Caller)
        /\ written[base] = MaxVal /\ written[paired] = 0

\* the asynchronous write of thread t has been awaited to its end
Awaited(t) == call[t].op = "set_async" /\ call[t].status = "returned"

\* C23: when an awaited set_async has returned, no task of it is left in the
\* pool, every callback of the snapshot has been invoked once, whether it
\* raised or not, and so has every subscriber of a derived cell whose
\* handler was in the snapshot; and nothing is invoked for the write once it
\* has returned, so the callbacks of a second awaited write all come after
\* those of the first.
C23_AwaitedWriteCompletesAfterCallbacks ==
    [][\A t \in Threads :
          /\ Awaited(t)'
                => /\ tasks'[t] = <<>> /\ stack'[t] = <<>>
                   /\ \A cb \in AllCallbacks :
                         In(cb, pre'[t]) => Invoked(t, call[t].self, cb)' = 1
                   /\ \A d \in Cells, cb \in AllCallbacks :
                         (In(Handler(d), pre'[t]) /\ In(cb, _callbacks'[d]))
                            => Invoked(t, d, cb)' >= 1
          /\ Awaited(t) => calls'[t] \in {calls[t], <<>>}
      ]_vars

\* An awaited set_async on base has returned: a raising callback of base, the
\* handler of doubled and, through it, a subscriber of doubled have run.
C23_Witness ==
    \E t \in Threads, cb \in UserCallbacks, bad \in Failing :
        /\ Awaited(t) /\ call[t].self = base
        /\ In(bad, pre[t]) /\ Invoked(t, base, bad) = 1
        /\ In(Handler(doubled), pre[t]) /\ Invoked(t, base, Handler(doubled)) = 1
        /\ In(cb, _callbacks[doubled]) /\ Invoked(t, doubled, cb) = 1
        /\ tasks[t] = <<>>

\* thread t's request for the pool has returned
Got(t) == job[t].op = "get_executor" /\ job[t].pc = "done" /\ job[t].status = "returned"

\* thread t is at the statement of get_executor that creates the pool, or
\* at the dispatch of an asynchronous write, which asks for the pool
Requesting(t) ==
    \/ job[t].op = "get_executor" /\ job[t].pc = "create"
    \/ stack[t] # <<>> /\ Top(t, 0).pc = "run_in_executor"

\* C24: the pool is created lazily and at most once: there is no pool until
\* a request for it creates one, and as long as no shutdown of a pool has
\* begun there is one pool at most, and every request that has returned,
\* whatever requests ran at the same time, returned that one pool.
C24_PoolCreatedLazilyAndOnce ==
    [][/\ created' # created => \E t \in Threads : Requesting(t)
       /\ (created = 0) = (_executor = NoExecutor /\ closed = {})
       /\ closed' = {}
             => /\ created' <= 1
                /\ \A t \in Threads :
                      Got(t)' => job'[t].result = _executor' /\ _executor' # NoExecutor
      ]_vars

\* Two requests overlapped: both found no pool, one has created it, and the
\* other, now inside the lock, finds it there; the first has returned it.
C24_Witness ==
    \E t, u \in Threads :
        /\ t # u
        /\ Got(t) /\ job[t].result = _executor
        /\ job[u].op = "get_executor" /\ job[u].pc = "create"
        /\ _executor # NoExecutor /\ closed = {} /\ created = 1

\* the last call of the owner was a shutdown, or a reset, that has returned
Returned(op) == job[Owner].op = op /\ job[Owner].pc = "done"

\* thread t makes the step that enters get_executor
Requests(t) == job[t].pc = "done" /\ job'[t] # job[t] /\ job'[t].op = "get_executor"

\* thread t makes the step that dispatches the callbacks of its asynchronous write
Dispatches(t) == stack[t] # <<>> /\ Top(t, 0).pc = "run_in_executor" /\ stack'[t] # stack[t]

\* C25: once cleanup has returned, whether there was a pool or not, every
\* request for the pool and every dispatch of an asynchronous write to a cell
\* with subscribers raises RuntimeError, until reset is called; a request
\* and a dispatch made after reset has returned do not raise, and the
\* request returns a pool that has not been shut down.
C25_UnavailableAfterShutdown ==
    [][\A t \in Threads \ {Owner} :
          /\ Requests(t)
                => /\ Returned("cleanup") => job'[t].status = "RuntimeError"
                   /\ Returned("reset") => job'[t].status = "running"
          /\ Dispatches(t)
                => /\ Returned("cleanup")
                         => call'[t].status = "RuntimeError" /\ stack'[t] = <<>>
                   /\ Returned("reset") => call'[t].status = "running"
          /\ (Returned("reset") /\ Got(t)' /\ ~Got(t))
                => job'[t].result \in (1..created') \ closed'
      ]_vars

\* the call of cleanup or reset by thread t has left cleanup, having shut down a pool
ShutDown(t) ==
    /\ job[t].op \in {"cleanup", "reset"}
    /\ job[t].pc \in {"done", "reset"}
    /\ job[t].result # NoExecutor

\* the asynchronous write of thread u submitted its callbacks to pool p and
\* has not resumed from its await yet
SubmittedTo(u, p) ==
    /\ stack[u] # <<>>
    /\ stack[u][1].pc = "gather"
    /\ stack[u][1].executor = p

\* C26: shutdown waits and does not cancel: when cleanup has returned, to
\* its caller or into reset, the pool it shut down has no callback left that
\* was submitted to it, and every callback submitted to a pool whose shutdown
\* is over has been executed, once.
C26_ShutdownWaitsForCallbacks ==
    /\ \A t \in Threads :
          ShutDown(t) => job[t].result \in closed /\ job[t].result # _executor
    /\ \A p \in closed, u \in Threads :
          (p # _executor /\ SubmittedTo(u, p))
             => /\ \A j \in 1..Len(tasks[u]) : tasks[u][j] = <<>>
                /\ \A cb \in AllCallbacks :
                      In(cb, pre[u]) => Invoked(u, call[u].self, cb) = 1

\* A cleanup has returned that shut down the pool to which an asynchronous
\* write, still at its await, had submitted two callbacks: both have run.
C26_Witness ==
    \E t, u \in Threads :
        /\ job[t].op = "cleanup" /\ ShutDown(t) /\ job[t].pc = "done"
        /\ SubmittedTo(u, job[t].result)
        /\ Len(tasks[u]) = 2
        /\ Invoked(u, base, on_change) = 1
        /\ Invoked(u, base, Handler(doubled)) = 1

\* the asynchronous write of thread t raised RuntimeError at its dispatch
DispatchFailed(t) == call[t].op = "set_async" /\ call[t].status = "RuntimeError"

\* C27: the value mutation of set_async always completes: from the step that
\* stores it on, and also when the dispatch of the notifications raises
\* RuntimeError because the pool is shut down, the cell holds the new value,
\* and a read after the failed call returns it.
C27_AsyncWriteStoresDespiteFailedDispatch ==
    \A t \in Threads :
        /\ call[t].op = "set_async" => _value[call[t].self] = call[t].arg
        /\ DispatchFailed(t)
              => /\ _value[call[t].self] = call[t].arg
                 /\ stack[t] = <<>> /\ tasks[t] = <<>> /\ calls[t] = <<>>

\* A set_async of MaxVal on base, whose subscribers were to be notified, has
\* raised RuntimeError after a shutdown of the pool; base holds MaxVal.
C27_Witness ==
    \E t \in Threads :
        /\ DispatchFailed(t)
        /\ call[t].self = base /\ call[t].arg = MaxVal
        /\ _value[base] = MaxVal
        /\ _shutdown
        /\ pre[t] # <<>>

\* a release of cell c has returned, and its caller has made no call since
Released(c) ==
    \E t \in Threads \ {Caller} :
        call[t].op = "cleanup" /\ call[t].self = c /\ call[t].status = "returned"

\* cell c has no dependency and no subscriber left, and its handler is
\* subscribed to no cell
Bare(c) ==
    /\ _deps[c] = <<>>
    /\ _callbacks[c] = <<>>
    /\ \A d \in Cells : ~In(Handler(c), _callbacks[d])

Exited(t) == call[t].op = "batch_scope" /\ ~batching[t] /\ call[t].status = "returned"

\* C29: inside a batch scope every write stores its value at once and puts
\* its cell into the pending set, and no subscriber is invoked while the
\* scope is open; when the exit from the scope is over, whether the body
\* ended or raised, every subscriber of every cell written in the scope has
\* been invoked once, however many writes the cell had, and the subscribers
\* that read the cell read its final value.
C29_BatchCoalescesNotifications ==
    \A t \in Threads :
        /\ batching[t] => calls[t] = <<>>
        /\ (batching[t] /\ call[t].op = "set" /\ call[t].status # "ValueError")
              => /\ _value[call[t].self] = call[t].arg
                 /\ call[t].status = "returned" => In(call[t].self, pending)
        /\ Exited(t)
              => /\ pending = <<>>
                 /\ \A k \in 1..Len(drained[t].cells) :
                       LET X == drained[t].cells[k] IN
                       /\ \A cb \in AllCallbacks :
                             In(cb, _callbacks[X]) => Invoked(t, X, cb) = 1
                       /\ \A i \in 1..Len(calls[t]) :
                             (calls[t][i].cell = X /\ calls[t][i].cb \in UserCallbacks)
                                => calls[t][i].val = written[X]

\* A scope in which both sources were written, paired first, and whose body
\* then raised, has been left: the subscriber of base was invoked once and
\* read the final value, and the handler of the derived cell ran once for
\* each source.
C29_Witness ==
    \E t \in Threads :
        /\ Exited(t)
        /\ drained[t] = [cells |-> <<paired, base>>, raised |-> TRUE]
        /\ written[base] = MaxVal
        /\ Invoked(t, base, second) = 1
        /\ \E i \in 1..Len(calls[t]) : calls[t][i] = Invocation(base, second, MaxVal)
        /\ Invoked(t, paired, Handler(combined)) = 1
        /\ Invoked(t, combined, on_change) = 2

\* thread t is inside a constructor, past the statement that took the id
Constructing(t) == stack[t] # <<>> /\ stack[t][1].pc = "__init__"

\* the ids taken by the constructors that are running
Taken == {stack[t][1].self : t \in {u \in Threads : Constructing(u)}}

\* the ids of the cells differ from each other and never change: the
\* constructors that are running hold different ids, none of them the id of
\* a constructed cell; a constructor keeps its id to its end, where the
\* cell it constructed, if any, has that id; a constructed cell stays
Unique ==
    /\ \A t, u \in Threads :
          (t # u /\ Constructing(t)' /\ Constructing(u)')
             => stack'[t][1].self # stack'[u][1].self
    /\ Taken' \cap live' = {}
    /\ live \subseteq live'
    /\ \A t \in Threads :
          Constructing(t)
             => /\ Constructing(t)' => stack'[t][1].self = stack[t][1].self
                /\ ~Constructing(t)'
                      => /\ live' \subseteq live \cup {stack[t][1].self}
                         /\ call'[t].self = stack[t][1].self
                         /\ stack[t][1].self \notin live

\* C30, as claimed: the ids are unique and never change, and the id of a
\* cell is greater than the id of every cell whose construction finished
\* earlier, also with overlapping and failing constructors.
C30_IdsIncreaseInOrderOfCompletion ==
    [][/\ Unique
       /\ \A d \in live' \ live : \A c \in live : d > c
      ]_vars

\* C30, amended: the ids are unique and never change, and the id of a cell
\* is greater than the id of every cell whose construction had finished, and
\* of every constructor that had taken its id, before its own construction
\* took its id, also with overlapping and failing constructors.
C30_IdsIncreaseInOrderOfAssignment ==
    [][/\ Unique
       /\ \A t \in Threads :
             (~Constructing(t) /\ Constructing(t)')
                => /\ \A c \in live \cup Taken : stack'[t][1].self > c
                   /\ stack'[t][1].self = instance_counter'
                   /\ instance_counter' > instance_counter
      ]_vars

\* Constructors overlapped and one failed: the cell with id 2 is constructed
\* while the constructor that took id 1 is still running, and the
\* constructor that took id 3 has raised ValueError.
C30_Witness ==
    \E t, u \in Threads :
        /\ Constructing(t) /\ stack[t][1].self = 1
        /\ 2 \in live /\ 1 \notin live
        /\ call[u].op = "Quark" /\ call[u].self = 3 /\ call[u].status = "ValueError"
        /\ instance_counter = 3

\* ------------------------------------------------- runs of the getters
\* One evaluation of self.value enters the value property of self and,
\* when self is derived, runs _compute, whose getter calls get(dep), that is
\* dep.value, for each cell it captured.  Entered(self, c): how often one
\* evaluation of self.value enters c.value.
RECURSIVE Entered(_, _)
RECURSIVE EnteredAll(_, _)
Entered(self, c) ==
    (IF self = c THEN 1 ELSE 0) + EnteredAll(_getter[self].cells, c)

EnteredAll(cells, c) ==
    IF cells = <<>> THEN 0 ELSE Entered(Head(cells), c) + EnteredAll(Tail(cells), c)

\* The cells whose value d._on_dep_change(dep) reads: none, its body is
\* self._notify_sync().
recomputedMutant(d) == <<d>>
recomputed(d) == <<>>

\* the counts once x.value has been evaluated for every x of the list:
\* each entry of a derived cell's value property runs its getter once
Evaluated(list) ==
    /\ accessed' = [c \in Cells |-> accessed[c] + EnteredAll(list, c)]
    /\ computed' = [c \in Cells |->
                       computed[c] + IF _getter[c] # None THEN EnteredAll(list, c) ELSE 0]

\* the constructor's `self._value = self._compute()`: the new cell's getter
\* runs once, reading the cells it captured
computed_initially(self, getter) ==
    /\ accessed' = [c \in Cells |-> accessed[c] + EnteredAll(getter.cells, c)]
    /\ computed' = [c \in Cells |->
                       IF c = self THEN 1
                       ELSE computed[c] + IF _getter[c] # None
                                          THEN EnteredAll(getter.cells, c) ELSE 0]

\* what the callback about to be invoked by t evaluates: a reading callback
\* the cell it is handed, a handler what _on_dep_change reads
read_by_callback(t) ==
    LET f == Top(t, 0)
        cb == f.callbacks_copy[f.i]
    IN IF cb.fn = "_on_dep_change" THEN recomputed(cb.self)
       ELSE IF cb \in Failing THEN <<>>
       ELSE <<f.self>>

\* One sequential caller constructs source cells and derived cells over the
\* cells that exist, subscribes a reading callback, reads and writes; the
\* specification counts the runs of the getters and the reads, MaxRuns of
\* each at most per cell.
MaxRuns == 3
Budget == \A c \in Cells : accessed[c] < MaxRuns
NextComputes ==
    \/ Uncounted /\ Unshared /\ Unconfigured /\ Unwrapped /\ Unrecorded /\ Unbatched /\ Unmanaged
          /\ Quark(Caller, FALSE, 0, None, AbsentDeps)
    \/ Unshared /\ Unconfigured /\ Unwrapped /\ Unrecorded /\ Unbatched /\ Unmanaged
          /\ \E getter \in Getters(live) :
                /\ Budget
                /\ Quark(Caller, TRUE, 0, getter, ListDeps(getter.cells))
                /\ computed_initially(instance_counter + 1, getter)
    \/ Uncounted /\ Unshared /\ Unconfigured /\ Unwrapped /\ Unrecorded /\ Unbatched /\ Unmanaged
          /\ \E getter \in Getters(live) : Quark(Caller, TRUE, 0, getter, AbsentDeps)
    \/ Unshared /\ Unconfigured /\ Unwrapped /\ Unrecorded /\ Unbatched /\ Unmanaged
          /\ \E self \in live : Budget /\ Read(Caller, self) /\ Evaluated(<<self>>)
    \/ Uncounted /\ Unshared /\ Unconfigured /\ Unwrapped /\ Unrecorded /\ Unbatched /\ Unmanaged
          /\ \E self \in live, new_value \in Values : Budget /\ set(Caller, self, new_value)
    \/ Uncounted /\ Unshared /\ Unconfigured /\ Unwrapped /\ Unrecorded /\ Unbatched /\ Unmanaged
          /\ \E self \in live : subscribe(Caller, self, on_change)
    \/ Uncounted /\ Unshared /\ Unconfigured /\ Unwrapped /\ Unrecorded /\ Unbatched /\ Unmanaged
          /\ append(Caller)
    \/ Uncounted /\ Unshared /\ Unconfigured /\ Unwrapped /\ Unrecorded /\ Unbatched /\ Unmanaged
          /\ _notify_sync(Caller, 0)
    \/ Unshared /\ Unconfigured /\ Unwrapped /\ Unrecorded /\ Unbatched /\ Unmanaged
          /\ _safe_call(Caller, 0) /\ Evaluated(read_by_callback(Caller))

SpecComputes == Init /\ [][NextComputes]_vars

\* C31: a write to a dependency never runs the getter of a derived cell by
\* itself.  The getter of a derived cell has run once for its construction
\* and once for every read of the cell, a read by a subscriber included, and
\* never else: the step that stores a written value and the invocation of a
\* dependency-change handler run no getter and read no cell.
C31_GetterRunsOnConstructionAndReads ==
    [][/\ \A d \in live' :
             computed'[d] = IF _getter'[d] # None THEN 1 + accessed'[d] ELSE 0
       /\ (call[Caller].op = "set" /\ call'[Caller].op = "set"
           /\ Len(calls'[Caller]) > Len(calls[Caller])
           /\ calls'[Caller][Len(calls'[Caller])].cb.fn = "_on_dep_change")
             => UNCHANGED countVars
       /\ (call'[Caller].op = "set" /\ calls'[Caller] = <<>> /\ call' # call)
             => UNCHANGED countVars]_vars

\* a write to a source cell has returned: through the handlers of a chain of
\* two derived cells it reached a subscriber of the last one, whose read ran
\* the getters of both once more
C31_Witness ==
    /\ call[Caller].op = "set" /\ call[Caller].status = "returned"
    /\ \E d, e \in live :
          /\ _getter[d] # None /\ _getter[e] # None /\ d # e
          /\ In(d, _getter[e].cells)
          /\ In(call[Caller].self, _getter[d].cells)
          /\ In(Invocation(call[Caller].self, Handler(d), 0), calls[Caller])
          /\ In(Invocation(d, Handler(e), 0), calls[Caller])
          /\ \E v \in 0..(4 * MaxVal) : In(Invocation(e, on_change, v), calls[Caller])
          /\ computed[e] = 2 /\ accessed[e] = 1
          /\ computed[d] = 1 + accessed[d] /\ accessed[d] >= 2

\* --------------------------------------------------------- configuration
\* config.py.  A StateQuarkConfig object is the record of its fields; the
\* dataclass defaults are debug = False, max_workers = 4, auto_cleanup = True.
Config(debug, workers, auto_cleanup) ==
    [none |-> FALSE, debug |-> debug, max_workers |-> workers,
     auto_cleanup |-> auto_cleanup]
Defaults == Config(FALSE, max_workers, TRUE)

\* the bounds __post_init__ checks max_workers against
MinWorkers == 1
MaxWorkers == 32

\* __post_init__: the exception it raises, "none" when the object is valid
post_initMutant(made) == IF made.max_workers < MinWorkers THEN "ValueError" ELSE "none"
post_init(made) ==
    IF made.max_workers < MinWorkers THEN "ValueError"
    ELSE IF made.max_workers > MaxWorkers THEN "ValueError"
    ELSE "none"

\* a call of config.py by thread t: it touches no cell
Configure(t, op, arg, status, result) ==
    /\ Begin(t, <<>>)
    /\ call' = [call EXCEPT ![t] = Call(op, 0, arg, NoCallback, status, result)]
    /\ UNCHANGED <<quarkVars, stack, tasks, gone, written>>

\* StateQuarkConfig(debug=.., max_workers=.., auto_cleanup=..): the dataclass
\* stores the fields and runs __post_init__, which raises or applies the
\* debug setting to the logger; the caller keeps the object.
StateQuarkConfig(t, debug, workers, auto_cleanup) ==
    LET made == Config(debug, workers, auto_cleanup) IN
    /\ Configure(t, "StateQuarkConfig", workers,
                 IF post_init(made) = "none" THEN "returned" ELSE post_init(made), 0)
    /\ IF post_init(made) = "none"
       THEN /\ config' = [config EXCEPT ![t] = made]
            /\ _debug_enabled' = debug
       ELSE UNCHANGED <<config, _debug_enabled>>
    /\ UNCHANGED _config

\* set_config(config), called with the object the thread constructed, which
\* it hands over: `_config = config`, and the debug setting is applied
set_config(t) ==
    /\ ~config[t].none
    /\ Configure(t, "set_config", config[t].max_workers, "returned", 0)
    /\ _config' = config[t]
    /\ _debug_enabled' = config[t].debug
    /\ config' = [config EXCEPT ![t] = NoConfig]

\* get_config(): installs StateQuarkConfig() when none is installed
get_config(t) ==
    /\ Configure(t, "get_config", 0, "returned",
                 IF _config.none THEN Defaults.max_workers ELSE _config.max_workers)
    /\ _config' = IF _config.none THEN Defaults ELSE _config
    /\ _debug_enabled' = IF _config.none THEN Defaults.debug ELSE _debug_enabled
    /\ UNCHANGED config

\* enable_debug() and disable_debug(): config = get_config();
\* config.debug = ..; the logger follows
set_debug(t, debug) ==
    /\ Configure(t, IF debug THEN "enable_debug" ELSE "disable_debug", 0, "returned", 0)
    /\ _config' = [(IF _config.none THEN Defaults ELSE _config) EXCEPT !.debug = debug]
    /\ _debug_enabled' = debug
    /\ UNCHANGED config

\* reset_config(): `_config = StateQuarkConfig()`
reset_config(t) ==
    /\ Configure(t, "reset_config", 0, "returned", 0)
    /\ _config' = Defaults
    /\ _debug_enabled' = Defaults.debug
    /\ UNCHANGED config

\* One caller constructs configuration objects with worker counts at and
\* around the two bounds, installs the object it holds, asks for the
\* installed one, switches debug and resets; each call is one step.
WorkerCounts == {MinWorkers - 1, MinWorkers, max_workers, MaxWorkers, MaxWorkers + 1}
NextConfig ==
    \/ Uncounted /\ Unshared /\ Unwrapped /\ Unrecorded /\ Unbatched /\ Unmanaged
          /\ \E debug \in BOOLEAN, workers \in WorkerCounts, auto_cleanup \in BOOLEAN :
                StateQuarkConfig(Caller, debug, workers, auto_cleanup)
    \/ Uncounted /\ Unshared /\ Unwrapped /\ Unrecorded /\ Unbatched /\ Unmanaged
          /\ set_config(Caller)
    \/ Uncounted /\ Unshared /\ Unwrapped /\ Unrecorded /\ Unbatched /\ Unmanaged
          /\ get_config(Caller)
    \/ Uncounted /\ Unshared /\ Unwrapped /\ Unrecorded /\ Unbatched /\ Unmanaged
          /\ \E debug \in BOOLEAN : set_debug(Caller, debug)
    \/ Uncounted /\ Unshared /\ Unwrapped /\ Unrecorded /\ Unbatched /\ Unmanaged
          /\ reset_config(Caller)

SpecConfig == Init /\ [][NextConfig]_vars

\* C32: a configuration object exists only with a worker count in 1..32.
\* Constructing one with max_workers below 1 or above 32 raises ValueError,
\* gives the caller no object and leaves the installed configuration as it
\* was; constructing one with a count in 1..32 returns the object; every
\* object held or installed has a count in 1..32; and reset_config()
\* installs max_workers 4, debug off, auto_cleanup on.
C32_WorkerCountValidated ==
    [][/\ call'[Caller].op = "StateQuarkConfig"
             => /\ (call'[Caller].status = "ValueError")
                      = (call'[Caller].arg < 1 \/ call'[Caller].arg > 32)
                /\ (call'[Caller].status = "returned") = (call'[Caller].arg \in 1..32)
                /\ call'[Caller].status = "ValueError"
                     => _config' = _config /\ config' = config
                /\ call'[Caller].status = "returned"
                     => config'[Caller].max_workers = call'[Caller].arg
       /\ ~config'[Caller].none => config'[Caller].max_workers \in 1..32
       /\ ~_config'.none => _config'.max_workers \in 1..32
       /\ call'[Caller].op = "reset_config"
             => /\ ~_config'.none
                /\ _config'.max_workers = 4
                /\ _config'.debug = FALSE
                /\ _config'.auto_cleanup = TRUE]_vars

\* a custom configuration with debug on and 32 workers is installed, and it
\* is still installed after a construction with 33 workers has raised
C32_Witness ==
    /\ ~_config.none /\ _config.max_workers = 32 /\ _config.debug
    /\ call[Caller].op = "StateQuarkConfig"
    /\ call[Caller].status = "ValueError"
    /\ call[Caller].arg = 33

\* ------------------------------------------------------ validated cells
\* utils/validate.py.  ValidatedQuark extends the Quark of statequark/atom.py,
\* whose synchronous write is set_sync.  in_range(min_val, max_val) and
\* clamp(min_val, max_val) are the functions validate.py makes; both are
\* modelled by their pair of bounds.
Range(min_val, max_val) == [none |-> FALSE, min_val |-> min_val, max_val |-> max_val]

\* in_range(min_val, max_val)(x): min_val <= x <= max_val
in_range(validator, x) == validator.min_val <= x /\ x <= validator.max_val

\* clamp(min_val, max_val)(x): max(min_val, min(max_val, x))
clamp(on_invalid, x) ==
    LET least == IF on_invalid.max_val < x THEN on_invalid.max_val ELSE x
    IN IF on_invalid.min_val > least THEN on_invalid.min_val ELSE least

\* The synchronous write of the base class: the value is stored under the
\* cell's lock and the synchronous notification follows.
set_sync(t, self, new_value) == Store(t, "set_sync", "_notify_sync", self, new_value)

\* a call that raises before it has touched anything
Raise(t, op, self, arg, error) ==
    /\ Begin(t, <<>>)
    /\ call' = [call EXCEPT ![t] = Call(op, self, arg, NoCallback, error, 0)]
    /\ gone' = [gone EXCEPT ![t] = {}]
    /\ UNCHANGED <<quarkVars, stack, tasks, written>>

\* ValidatedQuark(initial, validator, on_invalid): the validator is asked
\* before the base constructor runs.  MaxValidated cells are constructed at
\* most.
MaxValidated == 2
ValidatedQuark(t, initial, validator, on_invalid) ==
    /\ instance_counter < MaxValidated
    /\ IF ~in_range(validator, initial)
       THEN /\ Raise(t, "ValidatedQuark", 0, initial, "ValidationError")
            /\ UNCHANGED wrapperVars
       ELSE /\ Quark(t, FALSE, initial, None, AbsentDeps)
            /\ _validator' = [_validator EXCEPT ![instance_counter + 1] = validator]
            /\ _on_invalid' = [_on_invalid EXCEPT ![instance_counter + 1] = on_invalid]
            /\ UNCHANGED _reducer

\* what ValidatedQuark.set_sync does with new_value: it hands it, or
\* on_invalid(new_value), to the base class, or raises
Validated(self, new_value) ==
    IF in_range(_validator[self], new_value)
    THEN [status |-> "none", value |-> new_value]
    ELSE IF ~_on_invalid[self].none
    THEN [status |-> "none", value |-> clamp(_on_invalid[self], new_value)]
    ELSE [status |-> "ValidationError", value |-> new_value]

ValidatedQuark_set_sync(t, self, new_value) ==
    /\ self \in live
    /\ ~_validator[self].none
    /\ IF Validated(self, new_value).status = "none"
       THEN set_sync(t, self, Validated(self, new_value).value)
       ELSE Raise(t, "set_sync", self, new_value, Validated(self, new_value).status)
    /\ UNCHANGED wrapperVars

\* One caller constructs validated cells over the range 0..MaxVal, without
\* on_invalid, with clamp(0, MaxVal) and with clamp(0, MaxVal + 1), from
\* initial values inside and outside the range; it subscribes a reading
\* callback and writes values inside and outside the range, MaxWrites times
\* at most.  `order` keeps the values the caller asked to write.
Inputs == (0 - 1)..(MaxVal + 1)
Clamps == {NoRange, Range(0, MaxVal), Range(0, MaxVal + 1)}
NextValidated ==
    \/ Uncounted /\ Unshared /\ Unconfigured /\ Unrecorded /\ Unbatched /\ Unmanaged
          /\ \E initial \in Inputs, on_invalid \in Clamps :
                ValidatedQuark(Caller, initial, Range(0, MaxVal), on_invalid)
    \/ Uncounted /\ Unshared /\ Unconfigured /\ Unbatched /\ Unmanaged
          /\ \E self \in live, new_value \in Inputs :
                /\ Writes(Caller) < MaxWrites
                /\ ValidatedQuark_set_sync(Caller, self, new_value)
                /\ Written(Caller, self, new_value)
    \/ Core /\ Unrecorded /\ Unbatched /\ Unmanaged
          /\ \E self \in live : subscribe(Caller, self, on_change)
    \/ Core /\ Unrecorded /\ Unbatched /\ Unmanaged /\ append(Caller)
    \/ Core /\ Unrecorded /\ Unbatched /\ Unmanaged /\ _notify_sync(Caller, 0)
    \/ Core /\ Unrecorded /\ Unbatched /\ Unmanaged /\ _safe_call(Caller, 0)

SpecValidated == Init /\ [][NextValidated]_vars

\* the step is a call of set_sync(asked) on the validated cell c
Asked(c, asked) ==
    /\ Len(order') = Len(order) + 1
    /\ order'[Len(order')].cell = c
    /\ order'[Len(order')].val = asked

\* C33: the value of a validated cell satisfies its validator in every
\* reachable state.  Construction with an invalid initial value raises
\* ValidationError; a write of a valid value stores it; a write of an invalid
\* value stores on_invalid(value) when the cell has an on_invalid function and
\* else raises ValidationError, leaves the value as it was and notifies no
\* subscriber.
C33_ValidatedValueSatisfiesValidator ==
    [][/\ \A c \in live' :
             ~_validator'[c].none => in_range(_validator'[c], _value'[c])
       /\ call'[Caller].op = "ValidatedQuark"
             => /\ call'[Caller].status = "ValidationError"
                /\ ~(call'[Caller].arg \in 0..MaxVal)
                /\ live' = live
       /\ (call'[Caller].op = "Quark" /\ live' # live)
             => \A c \in live' \ live : _value'[c] \in 0..MaxVal
       /\ \A c \in live, asked \in Inputs :
             Asked(c, asked)
               => IF asked \in 0..MaxVal
                  THEN _value'[c] = asked /\ call'[Caller].status # "ValidationError"
                  ELSE IF ~_on_invalid[c].none
                  THEN /\ _value'[c] = clamp(_on_invalid[c], asked)
                       /\ call'[Caller].status # "ValidationError"
                  ELSE /\ call'[Caller].status = "ValidationError"
                       /\ _value'[c] = _value[c]
                       /\ stack'[Caller] = <<>>
                       /\ calls'[Caller] = <<>>]_vars

\* What holds of every validated cell: its value satisfies the validator or
\* is a value its on_invalid function produces.
ValidOrProducedByOnInvalid ==
    \A c \in live :
       ~_validator[c].none
         => \/ in_range(_validator[c], _value[c])
            \/ /\ ~_on_invalid[c].none
               /\ \E asked \in Inputs : _value[c] = clamp(_on_invalid[c], asked)

\* --------------------------------------------------------- reducer cells
\* utils/reducer.py.  ReducerQuark extends the same base class; a reducer is
\* named by what it computes: "add" is the `lambda s, a: s + a` of the tests.
Reducers == {"add"}
Reduce(reducer, state, action) == IF reducer = "add" THEN state + action ELSE state

\* ReducerQuark(initial, reducer): super().__init__(initial), then the slot.
\* MaxReducers cells are constructed at most.
MaxReducers == 1
ReducerQuark(t, initial, reducer) ==
    /\ instance_counter < MaxReducers
    /\ Quark(t, FALSE, initial, None, AbsentDeps)
    /\ _reducer' = [_reducer EXCEPT ![instance_counter + 1] = reducer]
    /\ UNCHANGED <<_validator, _on_invalid>>

\* dispatch(action), its first statement:
\* new_value = self._reducer(self._value, action), which reads self._value
\* without taking the cell's lock; the call record keeps new_value.
Dispatching(t) == call[t].op = "dispatch" /\ call[t].status = "running"
dispatch(t, self, action) ==
    /\ self \in live
    /\ _reducer[self] # NoReducer
    /\ ~Dispatching(t)
    /\ Begin(t, <<>>)
    /\ call' = [call EXCEPT ![t] =
                    Call("dispatch", self, action, NoCallback, "running",
                         Reduce(_reducer[self], _value[self], action))]
    /\ gone' = [gone EXCEPT ![t] = {}]
    /\ UNCHANGED <<quarkVars, stack, tasks, written, wrapperVars>>

\* dispatch(action), its second statement: self.set_sync(new_value)
dispatch_set_sync(t) ==
    /\ Dispatching(t)
    /\ set_sync(t, call[t].self, call[t].result)
    /\ UNCHANGED wrapperVars

\* The first thread constructs a reducer cell and subscribes two reading
\* callbacks; then every thread dispatches actions, MaxWrites at most, and
\* the steps of the threads interleave.  `order` keeps the initial value and,
\* after it, the dispatched actions.
Actions == 1..MaxVal
NextReducer ==
    \/ Uncounted /\ Unshared /\ Unconfigured /\ Unbatched /\ Unmanaged
          /\ \E initial \in Values, reducer \in Reducers :
                /\ ReducerQuark(Caller, initial, reducer)
                /\ Written(0, instance_counter + 1, initial)
    \/ Core /\ Unrecorded /\ Unbatched /\ Unmanaged
          /\ \E self \in live, callback \in UserCallbacks :
                /\ Len(order) = 1
                /\ subscribe(Caller, self, callback)
    \/ Core /\ Unrecorded /\ Unbatched /\ Unmanaged /\ append(Caller)
    \/ Uncounted /\ Unshared /\ Unconfigured /\ Unbatched /\ Unmanaged
          /\ \E t \in Threads, self \in live, action \in Actions :
                /\ Writes(t) < MaxWrites
                /\ dispatch(t, self, action)
                /\ Written(t, self, action)
    \/ Uncounted /\ Unshared /\ Unconfigured /\ Unrecorded /\ Unbatched /\ Unmanaged
          /\ \E t \in Threads : dispatch_set_sync(t)
    \/ Core /\ Unrecorded /\ Unbatched /\ Unmanaged /\ \E t \in Threads : _notify_sync(t, 0)
    \/ Core /\ Unrecorded /\ Unbatched /\ Unmanaged /\ \E t \in Threads : _safe_call(t, 0)

SpecReducer == Init /\ [][NextReducer]_vars

\* the reducer of cell c folded over the dispatched actions, from the
\* initial value, in the order of the dispatches
RECURSIVE Folded(_, _)
Folded(c, n) ==
    IF n = 1 THEN order[1].val
    ELSE Reduce(_reducer[c], Folded(c, n - 1), order[n].val)

\* no thread is inside a dispatch
Settled == \A t \in Threads : stack[t] = <<>> /\ ~Dispatching(t)

\* C34: once the dispatch calls made on a reducer cell have returned,
\* whether they were made one after the other or concurrently from several
\* threads, the cell's value is the reducer folded over all the dispatched
\* actions from the initial value (no action is lost), and each dispatch has
\* notified every subscriber exactly once.
C34_NoDispatchedActionLost ==
    \A c \in live :
       /\ (Settled /\ _reducer[c] # NoReducer) => _value[c] = Folded(c, Len(order))
       /\ \A t \in Threads :
             (call[t].op = "set_sync" /\ call[t].status = "returned" /\ call[t].self = c)
               => \A k \in 1..Len(pre[t]) : Invoked(t, c, pre[t][k]) = 1

\* ------------------------------------------- callbacks that subscribe
\* lambda q: c.subscribe(second): a callback that subscribes another one
Subscribing(c) == [fn |-> "subscribe", self |-> c]

\* the next callback of t's pass is a subscribing one
Acting(t) ==
    /\ stack[t] # <<>>
    /\ Top(t, 0).pc = "for"
    /\ Top(t, 0).callbacks_copy[Top(t, 0).i].fn = "subscribe"

\* _safe_call(cb) for a subscribing callback: callback(self) runs
\* c.subscribe(second), whose locked section appends unless present
subscribing_callback(t) ==
    /\ Acting(t)
    /\ LET f == Top(t, 0)
           cb == f.callbacks_copy[f.i]
           below == SubSeq(stack[t], 1, Len(stack[t]) - 1)
           next == Append(below, [f EXCEPT !.i = f.i + 1])
       IN /\ Unlocked({cb.self})
          /\ _callbacks' = [_callbacks EXCEPT ![cb.self] = appended(@, second)]
          /\ calls' = [calls EXCEPT ![t] = Append(@, Invocation(f.self, cb, 0))]
          /\ SetStack(t, 0, Unwind(next))
    /\ UNCHANGED <<instance_counter, live, _getter, _value, _deps, _lock,
                   _error_handler, pre, written, errors>>

\* base and doubled, with a subscribing callback and a reading callback
\* subscribed to base after the handler of doubled.
InitSnapshot ==
    /\ instance_counter = doubled
    /\ live = {base, doubled}
    /\ _getter = [c \in Cells |->
                     IF c = doubled THEN [fn |-> "double", cells |-> <<base>>] ELSE None]
    /\ _value = [c \in Cells |-> 0]
    /\ _callbacks = [c \in Cells |->
                        IF c = base THEN <<Handler(doubled), Subscribing(base), on_change>>
                        ELSE <<>>]
    /\ _deps = [c \in Cells |-> IF c = doubled THEN <<base>> ELSE <<>>]
    /\ _lock = [c \in Cells |-> 0]
    /\ stack = [t \in Threads |-> <<>>]
    /\ tasks = [t \in Threads |-> <<>>]
    /\ call = [t \in Threads |-> NoCall]
    /\ calls = [t \in Threads |-> <<>>]
    /\ pre = [t \in Threads |-> <<>>]
    /\ gone = [t \in Threads |-> {}]
    /\ written = [c \in Cells |-> 0]
    /\ _error_handler = [c \in Cells |-> NoHandler]
    /\ errors = [t \in Threads |-> <<>>]
    /\ order = <<>>
    /\ seen = <<>>
    /\ InitManager
    /\ InitBatch
    /\ InitCore

\* The first thread writes base while the other threads subscribe and
\* unsubscribe the two reading callbacks on base; the steps interleave.
NextSnapshot ==
    \/ Core /\ Unrecorded /\ Unbatched /\ Unmanaged
          /\ \E new_value \in Values : set(Caller, base, new_value)
    \/ Core /\ Unrecorded /\ Unbatched /\ Unmanaged
          /\ \E t \in Threads \ {Caller}, callback \in UserCallbacks :
                subscribe(t, base, callback)
    \/ Core /\ Unrecorded /\ Unbatched /\ Unmanaged
          /\ \E t \in Threads \ {Caller}, callback \in UserCallbacks :
                unsubscribe(t, base, callback)
    \/ Core /\ Unrecorded /\ Unbatched /\ Unmanaged /\ \E t \in Threads : append(t)
    \/ Core /\ Unrecorded /\ Unbatched /\ Unmanaged /\ \E t \in Threads : _notify_sync(t, 0)
    \/ Core /\ Unrecorded /\ Unbatched /\ Unmanaged
          /\ \E t \in Threads : ~Acting(t) /\ _safe_call(t, 0)
    \/ Core /\ Unrecorded /\ Unbatched /\ Unmanaged
          /\ \E t \in Threads : subscribing_callback(t)

SpecSnapshot == InitSnapshot /\ [][NextSnapshot]_vars

\* t is inside a notification pass, about to invoke the next callback
InPass(t) == stack[t] # <<>> /\ Top(t, 0).pc = "for"

\* C35: a notification pass invokes exactly the callbacks that were in the
\* subscriber list when it took its snapshot, in that order.  The snapshot
\* is the list of that moment; every step of the pass invokes the next
\* callback of the snapshot, whether or not it is still subscribed, and
\* nothing else is ever invoked; the snapshot of a running pass never
\* changes, whatever is subscribed or unsubscribed meanwhile by a callback
\* or by another thread; and the pass ends only after the last callback of
\* its snapshot.
C35_PassInvokesItsSnapshot ==
    [][\A t \in Threads :
          /\ (stack[t] # <<>> /\ Top(t, 0).pc = "_notify_sync" /\ stack'[t] # stack[t])
                => IF _callbacks[Top(t, 0).self] = <<>>
                   THEN Len(stack'[t]) < Len(stack[t]) /\ calls'[t] = calls[t]
                   ELSE /\ Len(stack'[t]) = Len(stack[t])
                        /\ stack'[t][Len(stack'[t])].pc = "for"
                        /\ stack'[t][Len(stack'[t])].i = 1
                        /\ stack'[t][Len(stack'[t])].callbacks_copy
                              = _callbacks[Top(t, 0).self]
          /\ (InPass(t) /\ stack'[t] # stack[t])
                => /\ Len(calls'[t]) = Len(calls[t]) + 1
                   /\ calls'[t][Len(calls'[t])].cell = Top(t, 0).self
                   /\ calls'[t][Len(calls'[t])].cb = Top(t, 0).callbacks_copy[Top(t, 0).i]
          /\ (calls'[t] # calls[t] /\ calls'[t] # <<>>) => InPass(t)
          /\ \A k \in 1..Len(stack[t]) :
                stack[t][k].pc = "for"
                  => IF k <= Len(stack'[t])
                     THEN /\ stack'[t][k].pc = "for"
                          /\ stack'[t][k].callbacks_copy = stack[t][k].callbacks_copy
                          /\ stack'[t][k].i \in {stack[t][k].i, stack[t][k].i + 1}
                     ELSE stack[t][k].i >= Len(stack[t][k].callbacks_copy)]_vars

\* a write of base has returned: its pass invoked the snapshot of three,
\* the reading callback although another thread had unsubscribed it during
\* the pass, and not the callback the subscribing callback subscribed
\* during the pass, which is in the list now
C35_Witness ==
    /\ call[Caller].op = "set" /\ call[Caller].status = "returned"
    /\ calls[Caller] = <<Invocation(base, Handler(doubled), 0),
                         Invocation(base, Subscribing(base), 0),
                         Invocation(base, on_change, call[Caller].arg)>>
    /\ ~In(on_change, _callbacks[base])
    /\ In(second, _callbacks[base])
    /\ \E t \in Threads \ {Caller} :
          call[t].op = "unsubscribe" /\ call[t].cb = on_change /\ call[t].result = 1

\* ----------------------------------------------------- dependency graphs
\* The dependency lists of derived cells 2..n, each over the cells before it
RECURSIVE Graphs(_)
Graphs(n) ==
    IF n = 1 THEN {<< <<>> >>}
    ELSE {Append(g, deps) : g \in Graphs(n - 1), deps \in CellLists(1..(n - 1))}

\* The subscriber lists after the constructors of cells d.. have run in
\* order: each subscribes its handler to every entry of its list
RECURSIVE Constructed(_, _, _)
Constructed(cbs, deps, d) ==
    IF d > MaxCells + 1 THEN cbs
    ELSE Constructed(SubscribeAll(cbs, deps[d], Handler(d)), deps, d + 1)

\* One source cell and derived cells over it, each with one reading
\* subscriber; the dependency graph is any graph over the cells.
InitGraph ==
    /\ instance_counter = MaxCells + 1
    /\ live = Cells
    /\ \E g \in Graphs(MaxCells + 1) :
          /\ _deps = [c \in Cells |-> g[c]]
          /\ _getter = [c \in Cells |->
                           IF c = base THEN None ELSE [fn |-> "total", cells |-> g[c]]]
          /\ _callbacks =
                LET built == Constructed([c \in Cells |-> <<>>], g, base + 1)
                IN [c \in Cells |->
                       IF c = base THEN built[c] ELSE appended(built[c], on_change)]
    /\ _value = [c \in Cells |-> 0]
    /\ _lock = [c \in Cells |-> 0]
    /\ stack = [t \in Threads |-> <<>>]
    /\ tasks = [t \in Threads |-> <<>>]
    /\ call = [t \in Threads |-> NoCall]
    /\ calls = [t \in Threads |-> <<>>]
    /\ pre = [t \in Threads |-> <<>>]
    /\ gone = [t \in Threads |-> {}]
    /\ written = [c \in Cells |-> 0]
    /\ _error_handler = [c \in Cells |-> NoHandler]
    /\ errors = [t \in Threads |-> <<>>]
    /\ order = <<>>
    /\ seen = <<>>
    /\ InitManager
    /\ InitBatch
    /\ InitCore

\* One caller writes the source cell; the passes run to their end.
NextGraph ==
    \/ Core /\ Unrecorded /\ Unbatched /\ Unmanaged
          /\ \E new_value \in Values : set(Caller, base, new_value)
    \/ Core /\ Unrecorded /\ Unbatched /\ Unmanaged /\ _notify_sync(Caller, 0)
    \/ Core /\ Unrecorded /\ Unbatched /\ Unmanaged /\ _safe_call(Caller, 0)

SpecGraph == InitGraph /\ [][NextGraph]_vars

\* the distinct cells of a list
Distinct(list) == {list[k] : k \in 1..Len(list)}

\* The number of distinct dependency paths from a to d in the declared graph
RECURSIVE Paths(_, _)
RECURSIVE PathsThrough(_, _)
PathsThrough(a, S) ==
    IF S = {} THEN 0
    ELSE LET c == CHOOSE x \in S : TRUE
         IN Paths(a, c) + PathsThrough(a, S \ {c})
Paths(a, d) == IF d = a THEN 1 ELSE PathsThrough(a, Distinct(_deps[d]))

\* C36: when one synchronous write to a source cell has returned, it has
\* invoked the subscriber of every derived cell once for each distinct
\* dependency path from the source to that cell: twice for a cell over two
\* cells that both depend on the source, twice for a cell over the source
\* and a derived cell over the source, and once for a cell that lists the
\* same dependency more than once.
C36_OneInvocationPerDependencyPath ==
    (call[Caller].op = "set" /\ call[Caller].status = "returned")
       => \A d \in Cells \ {call[Caller].self} :
             Invoked(Caller, d, on_change) = Paths(call[Caller].self, d)

\* a write of base has returned where cell 4 depends on cells 2 and 3, which
\* both depend on base only: the subscriber of cell 4 ran twice
C36_Witness ==
    /\ call[Caller].op = "set" /\ call[Caller].status = "returned"
    /\ call[Caller].self = base
    /\ _deps[2] = <<base>> /\ _deps[3] = <<base>> /\ _deps[4] = <<2, 3>>
    /\ Invoked(Caller, 4, on_change) = 2
    /\ Invoked(Caller, 2, on_change) = 1

\* the same where cell 3 depends on base and on a derived cell over base
TwoPathsThroughDerived ==
    /\ call[Caller].op = "set" /\ call[Caller].status = "returned"
    /\ _deps[2] = <<base>> /\ _deps[3] = <<base, 2>>
    /\ Invoked(Caller, 3, on_change) = 2

\* the same where cell 2 lists base twice: its subscriber ran once
DuplicateDependency ==
    /\ call[Caller].op = "set" /\ call[Caller].status = "returned"
    /\ _deps[2] = <<base, base>>
    /\ Invoked(Caller, 2, on_change) = 1

\* ------------------------------------------- constructions that raise
\* A getter that raises when it is called: def getter(get): raise ...
\* over the cells `cells` given as deps
Raising(cells) == [fn |-> "raises", cells |-> cells]
Raises(getter) == getter.fn = "raises"

\* Quark.__init__ of a derived cell after the id is taken, with the
\* subscriptions made before self._compute() is called
compute_initialMutant(t, getter, deps) ==
    /\ stack[t] # <<>>
    /\ Top(t, 0).pc = "__init__"
    /\ Unlocked(Cells)
    /\ UNCHANGED <<instance_counter, live, _lock, _error_handler, tasks, calls, pre,
                   gone, errors, written>>
    /\ LET self == Top(t, 0).self IN
       IF NoDeps(deps)
       THEN /\ call' = [call EXCEPT ![t].status = "ValueError"]
            /\ stack' = [stack EXCEPT ![t] = <<>>]
            /\ UNCHANGED <<_getter, _value, _callbacks, _deps>>
       ELSE IF Raises(getter)
       THEN /\ call' = [call EXCEPT ![t].status = "Exception"]
            /\ stack' = [stack EXCEPT ![t] = <<>>]
            /\ _callbacks' = SubscribeAll(_callbacks, DepsOrEmpty(deps), Handler(self))
            /\ UNCHANGED <<_getter, _value, _deps>>
       ELSE /\ _deps' = [_deps EXCEPT ![self] = DepsOrEmpty(deps)]
            /\ _getter' = [_getter EXCEPT ![self] = getter]
            /\ _value' = [_value EXCEPT ![self] = Initial(getter)]
            /\ stack' = [stack EXCEPT ![t] = <<LFrame("for dep", self, 0)>>]
            /\ UNCHANGED <<call, _callbacks>>

\* Quark.__init__ of a derived cell after the id is taken, up to
\* self._value = self._compute(): the lists, the refusal of a getter
\* without dependencies, and the first computation, whose exception leaves
\* the constructor
compute_initial(t, getter, deps) ==
    /\ stack[t] # <<>>
    /\ Top(t, 0).pc = "__init__"
    /\ Unlocked(Cells)
    /\ UNCHANGED <<instance_counter, live, _lock, _error_handler, tasks, calls, pre,
                   gone, errors, written>>
    /\ LET self == Top(t, 0).self IN
       IF NoDeps(deps)
       THEN /\ call' = [call EXCEPT ![t].status = "ValueError"]
            /\ stack' = [stack EXCEPT ![t] = <<>>]
            /\ UNCHANGED <<_getter, _value, _callbacks, _deps>>
       ELSE IF Raises(getter)
       THEN /\ call' = [call EXCEPT ![t].status = "Exception"]
            /\ stack' = [stack EXCEPT ![t] = <<>>]
            /\ UNCHANGED <<_getter, _value, _callbacks, _deps>>
       ELSE /\ _deps' = [_deps EXCEPT ![self] = DepsOrEmpty(deps)]
            /\ _getter' = [_getter EXCEPT ![self] = getter]
            /\ _value' = [_value EXCEPT ![self] = Initial(getter)]
            /\ stack' = [stack EXCEPT ![t] = <<LFrame("for dep", self, 0)>>]
            /\ UNCHANGED <<call, _callbacks>>

\* Quark.__init__, its end: `for dep in self._deps:
\* dep.subscribe(self._on_dep_change)`, and the constructor returns
subscribe_deps(t) ==
    /\ stack[t] # <<>>
    /\ Top(t, 0).pc = "for dep"
    /\ Unlocked(Cells)
    /\ LET self == Top(t, 0).self IN
       /\ _callbacks' = SubscribeAll(_callbacks, _deps[self], Handler(self))
       /\ live' = live \cup {self}
    /\ stack' = [stack EXCEPT ![t] = <<>>]
    /\ call' = [call EXCEPT ![t].status = "returned"]
    /\ UNCHANGED <<instance_counter, _getter, _value, _deps, _lock, _error_handler,
                   tasks, calls, pre, gone, errors, written>>

\* The first thread constructs source cells and derived cells, with getters
\* that compute and getters that raise, and with deps given, absent or
\* empty; every thread writes the source cells, also while a constructor
\* is between its computation and its subscriptions.
NextRaising ==
    \/ Core /\ Unrecorded /\ Unbatched /\ Unmanaged
          /\ \E initial \in Values : Quark(Caller, FALSE, initial, None, AbsentDeps)
    \/ Core /\ Unrecorded /\ Unbatched /\ Unmanaged /\ live # {} /\ __init__(Caller)
    \/ Core /\ Unrecorded /\ Unbatched /\ Unmanaged
          /\ \E getter \in Getters(live) \cup {Raising(l) : l \in CellLists(live)} :
                \E deps \in {AbsentDeps, ListDeps(<<>>), ListDeps(getter.cells)} :
                   compute_initial(Caller, getter, deps)
    \/ Core /\ Unrecorded /\ Unbatched /\ Unmanaged /\ subscribe_deps(Caller)
    \/ Core /\ Unrecorded /\ Unbatched /\ Unmanaged
          /\ \E t \in Threads, self \in live, new_value \in Values :
                set(t, self, new_value)
    \/ Core /\ Unrecorded /\ Unbatched /\ Unmanaged /\ \E t \in Threads : _notify_sync(t, 0)
    \/ Core /\ Unrecorded /\ Unbatched /\ Unmanaged /\ \E t \in Threads : _safe_call(t, 0)

SpecRaising == Init /\ [][NextRaising]_vars

\* the cells whose constructor has raised: their id was taken, they never
\* became live and no constructor is at work on them
Failed ==
    {c \in 1..instance_counter :
        /\ c \notin live
        /\ \A t \in Threads : stack[t] = <<>> \/ stack[t][1].self # c
                                 \/ stack[t][1].pc \notin {"__init__", "for dep"}}

\* C37: a construction of a derived cell that raises, because its deps are
\* empty or because its getter raises in the first computation, changes no
\* subscriber list; no handler of a cell whose construction failed is in
\* any subscriber list, and no write ever invokes such a handler or runs a
\* pass of such a cell.
C37_FailedConstructionLeavesSubscribers ==
    [][/\ \A t \in Threads :
             (call[t].status = "running" /\ call'[t].op = "Quark"
                 /\ call'[t].status \in {"ValueError", "Exception"})
                => _callbacks' = _callbacks /\ _deps' = _deps /\ live' = live
       /\ \A c \in Cells : \A k \in 1..Len(_callbacks'[c]) :
             _callbacks'[c][k].fn = "_on_dep_change"
                => _callbacks'[c][k].self \notin Failed'
       /\ \A t \in Threads : \A k \in 1..Len(calls'[t]) :
             /\ calls'[t][k].cell \notin Failed'
             /\ calls'[t][k].cb.fn = "_on_dep_change"
                   => calls'[t][k].cb.self \notin Failed']_vars

\* cell 2 failed because its getter raised and cell 3 was then built over
\* base; a later write of base has returned, having invoked the handler of
\* cell 3 only
C37_Witness ==
    /\ instance_counter = 3 /\ live = {base, 3} /\ Failed = {2}
    /\ _callbacks[base] = <<Handler(3)>>
    /\ call[Caller].op = "set" /\ call[Caller].status = "returned"
    /\ call[Caller].self = base
    /\ calls[Caller] = <<Invocation(base, Handler(3), 0)>>

\* a construction has just raised ValueError for empty deps, a cell before
\* it failed on its getter
EmptyDepsAfterRaisingGetter ==
    /\ call[Caller].op = "Quark" /\ call[Caller].status = "ValueError"
    /\ Failed = {2, 3}
    /\ _callbacks[base] = <<>>

\* ------------------------------------------- callables without a name
\* the callables the threads subscribe: two functions and a partial object
Callables == UserCallbacks \cup {partial}

\* Every thread subscribes and unsubscribes functions and partial objects
\* on base and doubled; the steps of the threads interleave.
NextNames ==
    \/ Core /\ Unrecorded /\ Unbatched /\ Unmanaged
          /\ \E t \in Threads, self \in live, callback \in Callables :
                subscribe(t, self, callback)
    \/ Core /\ Unrecorded /\ Unbatched /\ Unmanaged
          /\ \E t \in Threads, self \in live, callback \in Callables :
                unsubscribe(t, self, callback)
    \/ Core /\ Unrecorded /\ Unbatched /\ Unmanaged /\ \E t \in Threads : append(t)

SpecNames == InitThreads /\ [][NextNames]_vars

\* C38: subscribe(callback) and unsubscribe(callback) are all-or-nothing
\* for every callable, also one without __name__: the step in which the
\* call ends either returns with the list updated (the callback in it once
\* after subscribe, not in it after unsubscribe) or raises and leaves every
\* subscriber list as it was.
C38_SubscribeAllOrNothing ==
    [][\A t \in Threads :
          (call'[t] # call[t] /\ call'[t].op \in {"subscribe", "unsubscribe"}
              /\ call'[t].status # "running")
             => IF call'[t].status = "returned"
                THEN /\ call'[t].op = "subscribe"
                           => Count(_callbacks'[call'[t].self], call'[t].cb) = 1
                     /\ call'[t].op = "unsubscribe"
                           => ~In(call'[t].cb, _callbacks'[call'[t].self])
                ELSE _callbacks' = _callbacks]_vars

\* subscribe(partial) has raised AttributeError and the partial object is in
\* the list
SubscribeRaisedAfterAppend ==
    \E t \in Threads :
       /\ call[t].op = "subscribe" /\ call[t].status = "AttributeError"
       /\ In(partial, _callbacks[call[t].self])

\* unsubscribe(partial) has raised AttributeError and the partial object,
\* which was in the list, is no longer in it
UnsubscribeRaisedAfterRemove ==
    \E t \in Threads :
       /\ call[t].op = "unsubscribe" /\ call[t].status = "AttributeError"
       /\ call[t].result = 1
       /\ ~In(partial, _callbacks[call[t].self])

\* a call that raises has found the callable absent (subscribe) or present
\* (unsubscribe) and has changed the list before it raised
RaisesOnlyAfterTheChange ==
    \A t \in Threads :
       (call[t].op \in {"subscribe", "unsubscribe"}
           /\ call[t].status \notin {"running", "returned"})
          => /\ call[t].cb = partial
             /\ call[t].status = "AttributeError"
             /\ call[t].op = "subscribe" => call[t].result = 0
             /\ call[t].op = "unsubscribe" => call[t].result = 1

\* the manager is marked shut down and holds a pool
PoolHeldWhileShutDown == _shutdown /\ _executor # NoExecutor

\* a get_executor call has returned None
ReturnedNone ==
    \E t \in Threads :
       /\ job[t].op = "get_executor"
       /\ job[t].pc = "done"
       /\ job[t].status = "returned"
       /\ job[t].result = NoExecutor

\* C39: under every interleaving of get_executor, cleanup and reset called
\* from several threads, a manager that is marked shut down holds no pool,
\* and a get_executor call that returns does not return None.
C39_ShutDownHoldsNoPoolAndNoneIsNeverReturned ==
    /\ _shutdown => _executor = NoExecutor
    /\ \A t \in Threads :
          (job[t].op = "get_executor" /\ job[t].pc = "done"
              /\ job[t].status = "returned")
             => job[t].result # NoExecutor

\* ------------------------------------------------ one list, two cells
\* deps = [base]; doubled = Quark(..., deps); other = Quark(..., deps), or
\* other = Quark(..., [base]) with a list of its own: base with the handlers
\* of both, each derived cell with one reading subscriber.
InitShared ==
    /\ instance_counter = other
    /\ live = {base, doubled, other}
    /\ _getter = [c \in Cells |->
                     IF c \in {doubled, other}
                     THEN [fn |-> "double", cells |-> <<base>>] ELSE None]
    /\ _value = [c \in Cells |-> 0]
    /\ _callbacks = [c \in Cells |->
                        IF c = base THEN <<Handler(doubled), Handler(other)>>
                        ELSE IF c \in {doubled, other} THEN <<on_change>>
                        ELSE <<>>]
    /\ _deps = [c \in Cells |-> IF c \in {doubled, other} THEN <<base>> ELSE <<>>]
    /\ \E list \in {doubled, other} :
          shares = [c \in Cells |-> IF c = other THEN list ELSE c]
    /\ _lock = [c \in Cells |-> 0]
    /\ stack = [t \in Threads |-> <<>>]
    /\ tasks = [t \in Threads |-> <<>>]
    /\ call = [t \in Threads |-> NoCall]
    /\ calls = [t \in Threads |-> <<>>]
    /\ pre = [t \in Threads |-> <<>>]
    /\ gone = [t \in Threads |-> {}]
    /\ written = [c \in Cells |-> 0]
    /\ _error_handler = [c \in Cells |-> NoHandler]
    /\ errors = [t \in Threads |-> <<>>]
    /\ order = <<>>
    /\ seen = <<>>
    /\ InitManager
    /\ InitBatch
    /\ computed = [c \in Cells |-> 0]
    /\ accessed = [c \in Cells |-> 0]
    /\ _config = NoConfig
    /\ config = [t \in Threads |-> NoConfig]
    /\ _debug_enabled = FALSE
    /\ _validator = [c \in Cells |-> NoRange]
    /\ _on_invalid = [c \in Cells |-> NoRange]
    /\ _reducer = [c \in Cells |-> NoReducer]

\* Every thread releases (cleanup) the two derived cells and the first
\* thread writes base; the steps of the threads interleave.
NextShared ==
    \/ Core /\ Unrecorded /\ Unbatched /\ Unmanaged
          /\ \E t \in Threads, self \in {doubled, other} : acquire_cleanup(t, self)
    \/ Core /\ Unrecorded /\ Unbatched /\ Unmanaged /\ \E t \in Threads : unsubscribe_dep(t)
    \/ Core /\ Unrecorded /\ Unbatched /\ Unmanaged /\ \E t \in Threads : leave_unsubscribe(t)
    \/ Core /\ Unrecorded /\ Unbatched /\ Unmanaged /\ \E t \in Threads : leave_cleanup(t)
    \/ Core /\ Unrecorded /\ Unbatched /\ Unmanaged
          /\ \E new_value \in Values : acquire_set(Caller, base, new_value)
    \/ Core /\ Unrecorded /\ Unbatched /\ Unmanaged /\ leave_set(Caller)
    \/ Core /\ Unrecorded /\ Unbatched /\ Unmanaged /\ acquire_notify_sync(Caller)
    \/ Core /\ Unrecorded /\ Unbatched /\ Unmanaged /\ leave_notify_sync(Caller)
    \/ Core /\ Unrecorded /\ Unbatched /\ Unmanaged /\ call_callback(Caller)

SpecShared == InitShared /\ [][NextShared]_vars

\* thread t makes a step of its cleanup of cell d
Releasing(t, d) ==
    /\ call[t].op = "cleanup" /\ call[t].self = d /\ call[t].status = "running"
    /\ stack'[t] # stack[t]

\* a cleanup of cell d has returned
CleanedUp(d) ==
    \E t \in Threads :
       call[t].op = "cleanup" /\ call[t].self = d /\ call[t].status = "returned"

\* a handler of a derived cell is in the subscriber list of c
HandlerIn(c) == \E k \in 1..Len(_callbacks[c]) : _callbacks[c][k].fn = "_on_dep_change"

\* C40: a release of one derived cell changes no other cell's dependency
\* list and, in its dependencies' subscriber lists, removes its own handler
\* only, also when several derived cells were constructed from the same
\* deps list object; once each of them has been released, no handler of
\* theirs is left in any subscriber list.
C40_ReleaseTouchesOwnListsOnly ==
    [][/\ \A t \in Threads, d \in Cells :
             Releasing(t, d)
                => /\ \A c \in Cells \ {d} : _deps'[c] = _deps[c]
                   /\ \A c \in Cells \ {d} :
                         \/ _callbacks'[c] = _callbacks[c]
                         \/ _callbacks'[c] = remove(_callbacks[c], Handler(d))
       /\ (CleanedUp(doubled)' /\ CleanedUp(other)')
             => \A c \in Cells : ~HandlerIn(c)']_vars

\* both derived cells have been released and the handler of one of them is
\* still subscribed to base
HandlerLeftAfterReleases ==
    /\ CleanedUp(doubled) /\ CleanedUp(other)
    /\ HandlerIn(base)

\* where the two cells have lists of their own, a handler is in a
\* subscriber list only until both have been released
OwnListsReleased ==
    (shares[other] = other /\ CleanedUp(doubled) /\ CleanedUp(other))
       => \A c \in Cells : ~HandlerIn(c)

====
